---- MODULE Spec2Model ----
(***************************************************************************)
(* Storage/adapter layer of dudamel-plugin: the legacy vector-table        *)
(* backend (SqliteVecAdapter, better-sqlite3 + sqlite-vec), the native     *)
(* column backend (LibsqlAdapter, @libsql/client), the backend selector    *)
(* (initDb / _autoMigrate) and the migration script (migrate /             *)
(* migrateFromDb).                                                         *)
(*                                                                         *)
(* A process constructs one of the two adapters (src/db.js the legacy one, *)
(* the backend selector the native one); for the comparison of the two    *)
(* backends both are driven in lockstep with the same calls, each on its   *)
(* own store.  Embeddings are unit vectors with integer components         *)
(* (length 100), so a similarity of 1.0 is the integer Unit = 10000.       *)
(* Both engines enforce the foreign key record.project_id -> project.id    *)
(* (the legacy adapter by PRAGMA foreign_keys = ON, libsql by its build    *)
(* default).                                                               *)
(***************************************************************************)
EXTENDS Integers, Sequences, FiniteSets, TLC

VARIABLES
    backend, \* the adapter class in use: "vec", "libsql", or "both" in lockstep
    vdb,     \* legacy store (dude.db): project, record, record_embedding, sequences
    ldb,     \* native store (dude-libsql.db): project, record (embedding column)
    vad,     \* SqliteVecAdapter instance: db handle open?, currentProject
    lad,     \* LibsqlAdapter instance: db handle open?, currentProject
    now,     \* wall clock read by new Date() / datetime('now')
    last,    \* the last adapter call: its name and the result on each backend
    calls,   \* LibsqlAdapter.upsert calls in flight, suspended at an await
    fs,      \* data directory: which store files exist
    boot     \* the process running initDb: its position, the singleton, the error

vars == <<backend, vdb, ldb, vad, lad, now, last, calls, fs, boot>>

-----------------------------------------------------------------------------
(* Bounds of the model *)

MaxRecords == 2     \* highest record id AUTOINCREMENT hands out
MaxProjects == 2    \* highest project id AUTOINCREMENT hands out
MaxTime == 1        \* the clock stops advancing here

-----------------------------------------------------------------------------
(* Embeddings *)

\* embed() returns L2-normalized vectors; these have length exactly 100
Q == <<100, 0>>
X == <<96, 28>>
C == <<80, 60>>
W == <<28, 96>>
Z == <<0, 100>>

RECURSIVE DotFrom(_, _, _)
DotFrom(a, b, i) ==
    IF i > Len(a) THEN 0 ELSE a[i] * b[i] + DotFrom(a, b, i + 1)

\* the loop of _computeSimilarity: dot += queryEmbedding[i] * stored[i]
Dot(a, b) == DotFrom(a, b, 1)

\* similarity 1.0 (dot product of a unit vector with itself)
Unit == Dot(Q, Q)

\* the thresholds of the code, as multiples of Unit
DedupThreshold == (85 * Unit) \div 100      \* similarity >= 0.85
DedupDistance == (15 * Unit) \div 100       \* distance <= 0.15
RelevanceFloor == (3 * Unit) \div 10        \* r.similarity >= 0.3
ProjectBoost == Unit \div 10                \* similarity + 0.1

DedupK == 5            \* k of the dedup nearest-neighbour query
Oversampling == 3      \* candidateLimit = limit * 3
DefaultLimit == 5      \* limit = 5

\* decimal text of one component, as JSON.stringify writes it
RECURSIVE Digits(_)
Digits(n) == IF n < 10 THEN <<n>> ELSE Append(Digits(n \div 10), n % 10)

NumberToText(n) == [neg |-> n < 0, digits |-> Digits(IF n < 0 THEN 0 - n ELSE n)]

RECURSIVE DigitsValue(_)
DigitsValue(d) ==
    IF Len(d) = 0 THEN 0
    ELSE 10 * DigitsValue(SubSeq(d, 1, Len(d) - 1)) + d[Len(d)]

TextToNumber(t) == IF t.neg THEN 0 - DigitsValue(t.digits) ELSE DigitsValue(t.digits)

\* _embeddingToJson: JSON.stringify(Array.from(embedding))
embeddingToJson(embedding) == [i \in 1..Len(embedding) |-> NumberToText(embedding[i])]

\* the SQL function vector(?): the JSON text parsed into an F32_BLOB
vector(json) == [i \in 1..Len(json) |-> TextToNumber(json[i])]

\* a NULL embedding column
NullEmbedding == <<>>

\* _parseEmbedding: null for a NULL column, the floats otherwise
parseEmbedding(blob) == blob

\* _computeSimilarity: 0 when nothing is stored, the dot product otherwise
computeSimilarity(queryEmbedding, storedBlob) ==
    IF parseEmbedding(storedBlob) = NullEmbedding THEN 0
    ELSE Dot(queryEmbedding, parseEmbedding(storedBlob))

\* vec0 distance_metric=cosine on unit vectors: 1 - cosine
CosineDistance(a, b) == Unit - Dot(a, b)

-----------------------------------------------------------------------------
(* Schema *)

ValidKinds == {"issue", "spec", "arch", "update"}
ValidStatuses == {"open", "resolved", "archived"}

\* the CHECK constraints of table record; title is TEXT NOT NULL only
CheckRecord(kind, status) == kind \in ValidKinds /\ status \in ValidStatuses

\* a title the caller left out: the destructured field is undefined, and a
\* statement given undefined as a parameter throws before it runs
Undefined == "undefined"
Bindable(a) == a.title # Undefined

\* project names as path segments: <<"org", "repo">> is "org/repo"
HasNamespace(name) == Len(name) > 1           \* projectName.includes('/')
basename(name) == <<name[Len(name)]>>

NoProject == [id |-> 0, name |-> <<>>]        \* currentProject = null

EmptyFn == [i \in {} |-> 0]

\* the schema just created: no rows, AUTOINCREMENT sequences at 0
EmptyVecDb ==
    [project |-> EmptyFn, record |-> EmptyFn, record_embedding |-> EmptyFn,
     pseq |-> 0, rseq |-> 0]

EmptyLibsqlDb == [project |-> EmptyFn, record |-> EmptyFn, pseq |-> 0, rseq |-> 0]

Remove(f, id) == [i \in DOMAIN f \ {id} |-> f[i]]
Put(f, id, v) == [i \in DOMAIN f \cup {id} |-> IF i = id THEN v ELSE f[i]]

-----------------------------------------------------------------------------
(* Nearest neighbours and ranking *)

\* every way to list k ids lowest score first
RECURSIVE RankedAscending(_, _)
RankedAscending(score, k) ==
    IF k <= 0 \/ DOMAIN score = {} THEN {<<>>}
    ELSE LET worst == {i \in DOMAIN score :
                          \A j \in DOMAIN score : score[i] <= score[j]}
         IN UNION {{<<i>> \o t : t \in RankedAscending(Remove(score, i), k - 1)}
                     : i \in worst}

\* every way to list the k highest-scored ids, best first; equal scores in any order
\* (the order of sort((a, b) => b.similarity - a.similarity).slice(0, limit))
RECURSIVE Ranked(_, _)
Ranked(score, k) ==
    IF k <= 0 \/ DOMAIN score = {} THEN {<<>>}
    ELSE LET best == {i \in DOMAIN score :
                         \A j \in DOMAIN score : score[j] <= score[i]}
         IN UNION {{<<i>> \o t : t \in Ranked(Remove(score, i), k - 1)} : i \in best}

\* the k nearest stored embeddings to q (vec0 MATCH ... AND k = ?, vector_top_k):
\* every set of k rows that no row left out is nearer than; all rows if fewer than k
TopK(E, q, k) ==
    IF Cardinality(DOMAIN E) <= k THEN {DOMAIN E}
    ELSE {S \in SUBSET DOMAIN E :
            /\ Cardinality(S) = k
            /\ \A i \in S, j \in DOMAIN E \ S : Dot(q, E[i]) >= Dot(q, E[j])}

\* embedded rows of the native store: the vector index skips NULL embeddings
LibsqlIndex(db) ==
    [i \in {j \in DOMAIN db.record : db.record[j].embedding # NullEmbedding}
        |-> db.record[i].embedding]

-----------------------------------------------------------------------------
(* Results of adapter calls *)

\* a call's outcome: thrown error, or the id of the returned row (0 for null)
Ok(branch, id) == [status |-> "ok", branch |-> branch, id |-> id, rows |-> <<>>]
Error(branch) == [status |-> "error", branch |-> branch, id |-> 0, rows |-> <<>>]
NoResult == [status |-> "none", branch |-> "none", id |-> 0, rows |-> <<>>]

\* a get that gives back a row for whatever id it is asked for
getRecordAlways(db, id) == id

\* SELECT ... FROM record r JOIN project p ON r.project_id = p.id WHERE r.id = ?
getRecord(db, id) ==
    IF id \in DOMAIN db.record /\ db.record[id].project_id \in DOMAIN db.project
    THEN id ELSE 0

\* projectId ?? (await this.getCurrentProject()).id
ResolveProject(ad, a) == IF a.projectId # 0 THEN a.projectId ELSE ad.currentProject.id

-----------------------------------------------------------------------------
(* SqliteVecAdapter.upsert: one better-sqlite3 transaction *)

\* if (id): UPDATE record ... WHERE id = ?; DELETE + INSERT INTO record_embedding
VecUpdateById(db, a, e, t) ==
    IF ~Bindable(a) \/ (a.id \in DOMAIN db.record /\ ~CheckRecord(a.kind, a.status))
    THEN {[db |-> db, res |-> Error("update")]}
    ELSE LET rec == IF a.id \in DOMAIN db.record
                    THEN [db.record EXCEPT ![a.id] =
                             [@ EXCEPT !.kind = a.kind, !.title = a.title,
                                       !.body = a.body, !.status = a.status,
                                       !.updated_at = t]]
                    ELSE db.record
             after == [db EXCEPT !.record = rec,
                                 !.record_embedding =
                                     Put(Remove(db.record_embedding, a.id), a.id, e)]
         IN {[db |-> after, res |-> Ok("update", getRecord(after, a.id))]}

\* the dedup query: KNN with k = 5 on the side table, joined to record and
\* filtered by project and kind, ORDER BY re.distance LIMIT 1
VecCandidates(db, proj, kind, e) ==
    LET Joined(i) == /\ i \in DOMAIN db.record
                     /\ db.record[i].project_id = proj
                     /\ db.record[i].kind = kind
        Nearest(rows) == {i \in rows : \A j \in rows :
                             CosineDistance(e, db.record_embedding[i])
                                 <= CosineDistance(e, db.record_embedding[j])}
        First(rows) == IF rows = {} THEN {<<>>} ELSE {<<i>> : i \in Nearest(rows)}
    IN UNION {First({i \in S : Joined(i)}) : S \in TopK(db.record_embedding, e, DedupK)}

\* close match found: UPDATE record SET title, body, status, updated_at; re-insert
\* the embedding row
VecOverwrite(db, existingId, a, e, t) ==
    IF ~Bindable(a) \/ ~CheckRecord(db.record[existingId].kind, a.status)
    THEN [db |-> db, res |-> Error("dedup")]
    ELSE LET after == [db EXCEPT !.record[existingId] =
                                     [@ EXCEPT !.title = a.title, !.body = a.body,
                                               !.status = a.status, !.updated_at = t],
                                 !.record_embedding =
                                     Put(Remove(db.record_embedding, existingId),
                                         existingId, e)]
         IN [db |-> after, res |-> Ok("dedup", getRecord(after, existingId))]

\* the insert branch run outside a transaction: the record row stays when
\* the INSERT INTO record_embedding after it throws
VecInsertNoRollback(db, proj, a, e, t) ==
    LET newId == db.rseq + 1
        row == [project_id |-> proj, kind |-> a.kind, title |-> a.title,
                body |-> a.body, status |-> a.status,
                created_at |-> t, updated_at |-> t]
    IN IF ~Bindable(a) \/ ~CheckRecord(a.kind, a.status) \/ proj \notin DOMAIN db.project
       THEN [db |-> db, res |-> Error("insert")]
       ELSE IF newId \in DOMAIN db.record_embedding
       THEN [db |-> [db EXCEPT !.record = Put(db.record, newId, row), !.rseq = newId],
             res |-> Error("insert")]
       ELSE LET after == [db EXCEPT
                            !.record = Put(db.record, newId, row),
                            !.record_embedding = Put(db.record_embedding, newId, e),
                            !.rseq = newId]
            IN [db |-> after, res |-> Ok("insert", getRecord(after, newId))]

\* INSERT INTO record, then INSERT INTO record_embedding with lastInsertRowid;
\* a throw rolls the transaction back
VecInsert(db, proj, a, e, t) ==
    LET newId == db.rseq + 1
    IN IF \/ ~Bindable(a)
          \/ ~CheckRecord(a.kind, a.status)
          \/ proj \notin DOMAIN db.project
          \/ newId \in DOMAIN db.record_embedding
       THEN [db |-> db, res |-> Error("insert")]
       ELSE LET after == [db EXCEPT
                            !.record = Put(db.record, newId,
                                [project_id |-> proj, kind |-> a.kind,
                                 title |-> a.title, body |-> a.body,
                                 status |-> a.status,
                                 created_at |-> t, updated_at |-> t]),
                            !.record_embedding = Put(db.record_embedding, newId, e),
                            !.rseq = newId]
            IN [db |-> after, res |-> Ok("insert", getRecord(after, newId))]

VecUpsert(db, ad, a, e, t) ==
    IF a.id # 0 THEN VecUpdateById(db, a, e, t)
    ELSE LET proj == ResolveProject(ad, a)
         IN {IF Len(c) > 0 /\ CosineDistance(e, db.record_embedding[c[1]]) <= DedupDistance
             THEN VecOverwrite(db, c[1], a, e, t)
             ELSE VecInsert(db, proj, a, e, t)
               : c \in VecCandidates(db, proj, a.kind, e)}

-----------------------------------------------------------------------------
(* LibsqlAdapter.upsert: a sequence of awaited statements *)

\* the id branch with the column list of the dedup UPDATE (kind left out)
LibsqlUpdateByIdKeepsKind(db, a, e, t) ==
    IF ~Bindable(a) \/ (a.id \in DOMAIN db.record /\ ~CheckRecord(a.kind, a.status))
    THEN [db |-> db, res |-> Error("update")]
    ELSE LET after ==
                IF a.id \in DOMAIN db.record
                THEN [db EXCEPT !.record[a.id] =
                         [@ EXCEPT !.title = a.title, !.body = a.body, !.status = a.status,
                                   !.embedding = vector(embeddingToJson(e)),
                                   !.updated_at = t]]
                ELSE db
         IN [db |-> after, res |-> Ok("update", getRecord(after, a.id))]

\* if (id): UPDATE record SET kind, title, body, status, embedding, updated_at
LibsqlUpdateById(db, a, e, t) ==
    IF ~Bindable(a) \/ (a.id \in DOMAIN db.record /\ ~CheckRecord(a.kind, a.status))
    THEN [db |-> db, res |-> Error("update")]
    ELSE LET after ==
                IF a.id \in DOMAIN db.record
                THEN [db EXCEPT !.record[a.id] =
                         [@ EXCEPT !.kind = a.kind, !.title = a.title,
                                   !.body = a.body, !.status = a.status,
                                   !.embedding = vector(embeddingToJson(e)),
                                   !.updated_at = t]]
                ELSE db
         IN [db |-> after, res |-> Ok("update", getRecord(after, a.id))]

\* the dedup query with the project filter alone
LibsqlCandidatesAnyKind(db, proj, kind, e) ==
    LET Joined(i) == db.record[i].project_id = proj
    IN {{i \in S : Joined(i)} : S \in TopK(LibsqlIndex(db), e, DedupK)}

\* the dedup query: vector_top_k(..., 5) joined to record and filtered by project
\* and kind; the rows come back in the engine's order (no ORDER BY)
LibsqlCandidates(db, proj, kind, e) ==
    LET Joined(i) == db.record[i].project_id = proj /\ db.record[i].kind = kind
    IN {{i \in S : Joined(i)} : S \in TopK(LibsqlIndex(db), e, DedupK)}

\* for (const row of candidates.rows): the rows the loop can stop at, i.e. those
\* with similarity >= 0.85 (whichever of them the engine returns first)
LibsqlMatches(db, rows, e) ==
    {i \in rows : computeSimilarity(e, db.record[i].embedding) >= DedupThreshold}

\* the dedup UPDATE with created_at among the columns it sets
LibsqlOverwriteRecreates(db, rowId, a, e, t) ==
    IF ~Bindable(a)
    THEN [db |-> db, res |-> Error("dedup")]
    ELSE IF rowId \notin DOMAIN db.record
    THEN [db |-> db, res |-> Ok("dedup", 0)]
    ELSE IF ~CheckRecord(db.record[rowId].kind, a.status)
    THEN [db |-> db, res |-> Error("dedup")]
    ELSE LET after == [db EXCEPT !.record[rowId] =
                         [@ EXCEPT !.title = a.title, !.body = a.body,
                                   !.status = a.status,
                                   !.embedding = vector(embeddingToJson(e)),
                                   !.created_at = t, !.updated_at = t]]
         IN [db |-> after, res |-> Ok("dedup", getRecord(after, rowId))]

\* close match: UPDATE record SET title, body, status, embedding, updated_at
\* WHERE id = row.id (no row is touched when the id is gone by then)
LibsqlOverwrite(db, rowId, a, e, t) ==
    IF ~Bindable(a)
    THEN [db |-> db, res |-> Error("dedup")]
    ELSE IF rowId \notin DOMAIN db.record
    THEN [db |-> db, res |-> Ok("dedup", 0)]
    ELSE IF ~CheckRecord(db.record[rowId].kind, a.status)
    THEN [db |-> db, res |-> Error("dedup")]
    ELSE LET after == [db EXCEPT !.record[rowId] =
                         [@ EXCEPT !.title = a.title, !.body = a.body,
                                   !.status = a.status,
                                   !.embedding = vector(embeddingToJson(e)),
                                   !.updated_at = t]]
         IN [db |-> after, res |-> Ok("dedup", getRecord(after, rowId))]

\* INSERT INTO record (..., embedding, ...) VALUES (..., vector(?), ...)
LibsqlInsert(db, proj, a, e, t) ==
    LET newId == db.rseq + 1
    IN IF ~Bindable(a) \/ ~CheckRecord(a.kind, a.status) \/ proj \notin DOMAIN db.project
       THEN [db |-> db, res |-> Error("insert")]
       ELSE LET after == [db EXCEPT
                            !.record = Put(db.record, newId,
                                [project_id |-> proj, kind |-> a.kind,
                                 title |-> a.title, body |-> a.body,
                                 status |-> a.status,
                                 embedding |-> vector(embeddingToJson(e)),
                                 created_at |-> t, updated_at |-> t]),
                            !.rseq = newId]
            IN [db |-> after, res |-> Ok("insert", getRecord(after, newId))]

\* the write a dedup result leads to: the overwrite of a match, or the insert
LibsqlWrites(db, proj, matches, a, e, t) ==
    IF matches # {}
    THEN {LibsqlOverwrite(db, m, a, e, t) : m \in matches}
    ELSE {LibsqlInsert(db, proj, a, e, t)}

\* the whole call, when the caller awaits it before issuing the next one
LibsqlUpsert(db, ad, a, e, t) ==
    IF a.id # 0 THEN {LibsqlUpdateById(db, a, e, t)}
    ELSE LET proj == ResolveProject(ad, a)
         IN UNION {LibsqlWrites(db, proj, LibsqlMatches(db, rows, e), a, e, t)
                     : rows \in LibsqlCandidates(db, proj, a.kind, e)}

-----------------------------------------------------------------------------
(* search *)

\* the boost without its cap
BoostedUncapped(similarity, sameProject) ==
    IF sameProject THEN similarity + ProjectBoost ELSE similarity

\* the boost given to the rows of every project
BoostedEverywhere(similarity, sameProject) ==
    IF similarity + ProjectBoost > Unit THEN Unit ELSE similarity + ProjectBoost

\* Math.min(1.0, similarity + 0.1) for a row of the current project
Boosted(similarity, sameProject) ==
    IF sameProject
    THEN (IF similarity + ProjectBoost > Unit THEN Unit ELSE similarity + ProjectBoost)
    ELSE similarity

\* limit = 5 when the caller gives none
EffectiveLimit(limit) == IF limit = 0 THEN DefaultLimit ELSE limit

\* kind && kind !== 'all'
KindFilter(kind, rowKind) == kind \in {"", "all"} \/ rowKind = kind

\* p.name AS project, compared with curProject.name
IsCurrent(db, ad, i) == db.project[db.record[i].project_id].name = ad.currentProject.name

ResultRows(ids, sim) == [n \in 1..Len(ids) |-> [id |-> ids[n], similarity |-> sim[ids[n]]]]

\* SqliteVecAdapter.search: KNN with k = limit * 3 ORDER BY re.distance, boost,
\* filter >= 0.3, stable sort by boosted similarity, slice(0, limit)
VecSearch(db, ad, e, kind, limit) ==
    LET Joined(i) == /\ i \in DOMAIN db.record
                     /\ db.record[i].project_id \in DOMAIN db.project
                     /\ KindFilter(kind, db.record[i].kind)
        raw(i) == Unit - CosineDistance(e, db.record_embedding[i])
        OfRows(rows) ==
            LET sim == [i \in rows |-> Boosted(raw(i), IsCurrent(db, ad, i))]
                kept == {i \in rows : sim[i] >= RelevanceFloor}
                \* rows arrive nearest first, and the sort is stable
                key == [i \in kept |-> sim[i] * (4 * Unit) + (raw(i) + Unit)]
            IN {ResultRows(ids, sim) : ids \in Ranked(key, EffectiveLimit(limit))}
    IN UNION {OfRows({i \in S : Joined(i)})
                : S \in TopK(db.record_embedding, e, EffectiveLimit(limit) * Oversampling)}

\* LibsqlAdapter.search returning every candidate row, whatever its similarity
LibsqlSearchUnfiltered(db, ad, e, kind, limit) ==
    LET Joined(i) == /\ db.record[i].project_id \in DOMAIN db.project
                     /\ KindFilter(kind, db.record[i].kind)
        OfRows(rows) ==
            LET sim == [i \in rows |->
                          Boosted(computeSimilarity(e, db.record[i].embedding),
                                  IsCurrent(db, ad, i))]
            IN {ResultRows(ids, sim)
                  : ids \in Ranked([i \in rows |-> sim[i]], EffectiveLimit(limit))}
    IN UNION {OfRows({i \in S : Joined(i)})
                : S \in TopK(LibsqlIndex(db), vector(embeddingToJson(e)),
                             EffectiveLimit(limit) * Oversampling)}

\* LibsqlAdapter.search: vector_top_k with k = limit * 3 (rows in the engine's
\* order), similarity recomputed, boost, filter >= 0.3, stable sort, slice
LibsqlSearch(db, ad, e, kind, limit) ==
    LET Joined(i) == /\ db.record[i].project_id \in DOMAIN db.project
                     /\ KindFilter(kind, db.record[i].kind)
        OfRows(rows) ==
            LET sim == [i \in rows |->
                          Boosted(computeSimilarity(e, db.record[i].embedding),
                                  IsCurrent(db, ad, i))]
                kept == {i \in rows : sim[i] >= RelevanceFloor}
            IN {ResultRows(ids, sim)
                  : ids \in Ranked([i \in kept |-> sim[i]], EffectiveLimit(limit))}
    IN UNION {OfRows({i \in S : Joined(i)})
                : S \in TopK(LibsqlIndex(db), vector(embeddingToJson(e)),
                             EffectiveLimit(limit) * Oversampling)}

-----------------------------------------------------------------------------
(* delete *)

\* DELETE FROM record_embedding; DELETE FROM record; return changes > 0
VecDelete(db, id) ==
    [db |-> [db EXCEPT !.record = Remove(db.record, id),
                       !.record_embedding = Remove(db.record_embedding, id)],
     res |-> Ok("delete", IF id \in DOMAIN db.record THEN id ELSE 0)]

\* DELETE FROM record WHERE id = ?; return rowsAffected > 0
LibsqlDelete(db, id) ==
    [db |-> [db EXCEPT !.record = Remove(db.record, id)],
     res |-> Ok("delete", IF id \in DOMAIN db.record THEN id ELSE 0)]

-----------------------------------------------------------------------------
(* init: project resolution and the legacy-identity merge *)

ProjectIdOf(db, name) ==
    IF \E i \in DOMAIN db.project : db.project[i].name = name
    THEN CHOOSE i \in DOMAIN db.project : db.project[i].name = name
    ELSE 0

\* the INSERT without its ON CONFLICT clause and without the UNIQUE constraint:
\* a row is added every time
upsertProjectAlwaysInserts(db, name, t) ==
    [db EXCEPT !.project = Put(db.project, db.pseq + 1,
                               [name |-> name, created_at |-> t, updated_at |-> t]),
               !.pseq = db.pseq + 1]

\* INSERT INTO project (name) ... ON CONFLICT(name) DO UPDATE SET updated_at
upsertProject(db, name, t) ==
    IF ProjectIdOf(db, name) # 0
    THEN [db EXCEPT !.project[ProjectIdOf(db, name)].updated_at = t]
    ELSE [db EXCEPT !.project = Put(db.project, db.pseq + 1,
                                    [name |-> name, created_at |-> t, updated_at |-> t]),
                    !.pseq = db.pseq + 1]

\* the row SELECT * FROM project WHERE name = ? gives back
ProjectRow(db, name) == [id |-> ProjectIdOf(db, name), name |-> name]

\* the test of _migrateProjectNames: a namespaced name whose bare name is
\* another project row
NeedsMerge(db, currentProject, projectName) ==
    /\ HasNamespace(projectName)
    /\ ProjectIdOf(db, basename(projectName)) # 0
    /\ ProjectIdOf(db, basename(projectName)) # currentProject.id

\* UPDATE record SET project_id = ? WHERE project_id = ?
ReassignRecords(db, from, to) ==
    [db EXCEPT !.record = [i \in DOMAIN db.record |->
        IF db.record[i].project_id = from
        THEN [db.record[i] EXCEPT !.project_id = to] ELSE db.record[i]]]

\* DELETE FROM project WHERE id = ? (ON DELETE CASCADE on record.project_id)
DeleteProject(db, id) ==
    [db EXCEPT !.project = Remove(db.project, id),
               !.record = [i \in {j \in DOMAIN db.record : db.record[j].project_id # id}
                             |-> db.record[i]]]

\* the merge without its UPDATE: the legacy project row is deleted with the
\* records it owns
migrateProjectNamesDeleteOnly(db, currentProject, projectName) ==
    IF NeedsMerge(db, currentProject, projectName)
    THEN DeleteProject(db, ProjectIdOf(db, basename(projectName)))
    ELSE db

\* _migrateProjectNames: the UPDATE, then the DELETE
migrateProjectNames(db, currentProject, projectName) ==
    IF NeedsMerge(db, currentProject, projectName)
    THEN LET old == ProjectIdOf(db, basename(projectName))
         IN DeleteProject(ReassignRecords(db, old, currentProject.id), old)
    ELSE db

\* init(): _upsertProject, then _migrateProjectNames, on an opened store
InitStore(db, projectName, t) ==
    LET withProject == upsertProject(db, projectName, t)
    IN migrateProjectNames(withProject, ProjectRow(withProject, projectName), projectName)

\* the adapter after init(): handle open, currentProject set
InitAdapter(db, projectName, t) ==
    [db |-> TRUE, currentProject |-> ProjectRow(upsertProject(db, projectName, t), projectName)]

\* a constructed adapter: this.db = null, this.currentProject = null
NewAdapter == [db |-> FALSE, currentProject |-> NoProject]

-----------------------------------------------------------------------------
(* State after construction *)

NoCall == [op |-> "none", v |-> NoResult, l |-> NoResult]

\* OLD_DB (dude.db), NEW_DB (dude-libsql.db), OLD_DB.backup: which exist
NoFiles == [old |-> FALSE, new |-> FALSE, backup |-> FALSE]

\* let adapter = null: initDb has not been called in this process
NotStarted == [pc |-> "none", step |-> 0, error |-> "none"]

\* no process is running yet: adapters constructed, nothing called
Stopped ==
    /\ vad = NewAdapter
    /\ lad = NewAdapter
    /\ now = 0
    /\ last = NoCall
    /\ calls = EmptyFn
    /\ boot = NotStarted

\* everything but the choice of adapter class: both stores just created
Constructed == vdb = EmptyVecDb /\ ldb = EmptyLibsqlDb /\ fs = NoFiles /\ Stopped

Init == backend \in {"vec", "libsql"} /\ Constructed

Runs(b) == backend \in {b, "both"}

\* the adapter(s) in use are initialised
Ready == (Runs("vec") => vad.db) /\ (Runs("libsql") => lad.db)
Fresh == (Runs("vec") => ~vad.db) /\ (Runs("libsql") => ~lad.db)

Idle(db) == {[db |-> db, res |-> NoResult]}

-----------------------------------------------------------------------------
(* Adapter calls, each awaited by its caller before the next is issued *)

\* a process starts: a new adapter is constructed and init() runs on the store
InitUpTo(projectName, max) ==
    /\ Fresh
    /\ InitStore(IF Runs("vec") THEN vdb ELSE ldb, projectName, now).pseq <= max
    /\ vdb' = IF Runs("vec") THEN InitStore(vdb, projectName, now) ELSE vdb
    /\ vad' = IF Runs("vec") THEN InitAdapter(vdb, projectName, now) ELSE vad
    /\ ldb' = IF Runs("libsql") THEN InitStore(ldb, projectName, now) ELSE ldb
    /\ lad' = IF Runs("libsql") THEN InitAdapter(ldb, projectName, now) ELSE lad
    /\ last' = [NoCall EXCEPT !.op = "init"]
    /\ UNCHANGED <<backend, now, fs, boot>>

AdapterInit(projectName) == InitUpTo(projectName, MaxProjects) /\ UNCHANGED calls

\* the process ends; the next one constructs its adapter anew
Restart ==
    /\ Ready
    /\ vad' = NewAdapter
    /\ lad' = NewAdapter
    /\ last' = NoCall
    /\ UNCHANGED <<backend, vdb, ldb, now, calls, fs, boot>>

\* upsert(record, embedding), with AUTOINCREMENT capped at max
UpsertUpTo(a, e, max) ==
    /\ Ready
    /\ \E vo \in (IF Runs("vec") THEN VecUpsert(vdb, vad, a, e, now) ELSE Idle(vdb)),
          lo \in (IF Runs("libsql") THEN LibsqlUpsert(ldb, lad, a, e, now) ELSE Idle(ldb)) :
          /\ vo.db.rseq <= max /\ lo.db.rseq <= max
          /\ last' = [op |-> "upsert", v |-> vo.res, l |-> lo.res]
          /\ vdb' = vo.db
          /\ ldb' = lo.db
    /\ UNCHANGED <<backend, vad, lad, now, calls, fs, boot>>

Upsert(a, e) == UpsertUpTo(a, e, MaxRecords)

\* delete(id)
Delete(id) ==
    /\ Ready
    /\ \E vo \in (IF Runs("vec") THEN {VecDelete(vdb, id)} ELSE Idle(vdb)),
          lo \in (IF Runs("libsql") THEN {LibsqlDelete(ldb, id)} ELSE Idle(ldb)) :
          /\ vdb' = vo.db
          /\ ldb' = lo.db
          /\ last' = [op |-> "delete", v |-> vo.res, l |-> lo.res]
    /\ UNCHANGED <<backend, vad, lad, now, calls, fs, boot>>

SearchResult(rows) == [Ok("search", 0) EXCEPT !.rows = rows]

\* search(embedding, {kind, limit})
Search(e, kind, limit) ==
    /\ Ready
    /\ \E vr \in (IF Runs("vec")
                  THEN {SearchResult(r) : r \in VecSearch(vdb, vad, e, kind, limit)}
                  ELSE {NoResult}),
          lr \in (IF Runs("libsql")
                  THEN {SearchResult(r) : r \in LibsqlSearch(ldb, lad, e, kind, limit)}
                  ELSE {NoResult}) :
          last' = [op |-> "search", v |-> vr, l |-> lr]
    /\ UNCHANGED <<backend, vdb, ldb, vad, lad, now, calls, fs, boot>>

\* time passes between two calls
TickUpTo(max) ==
    /\ now < max
    /\ now' = now + 1
    /\ UNCHANGED <<backend, vdb, ldb, vad, lad, last, calls, fs, boot>>

Tick == TickUpTo(MaxTime)

-----------------------------------------------------------------------------
(* Inputs *)

\* title, body and status of a call
Payloads ==
    {[title |-> "t1", body |-> "", status |-> "open"],
     [title |-> "t2", body |-> "b2", status |-> "resolved"]}

\* a call the status CHECK rejects
BadPayloads == {[title |-> "t1", body |-> "", status |-> "bogus"]}

UpsertArgs(ids, projectIds, kinds, payloads) ==
    {[id |-> i, projectId |-> p, kind |-> k,
      title |-> pl.title, body |-> pl.body, status |-> pl.status]
        : i \in ids, p \in projectIds, k \in kinds, pl \in payloads}

-----------------------------------------------------------------------------
(* One project: upsert by id and without id, delete, restarts *)

\* calls the CHECK constraints reject when they reach a row
BadArgs(ids) ==
    UpsertArgs(ids, {0}, {"bogus"}, Payloads) \cup UpsertArgs(ids, {0}, {"issue"}, BadPayloads)

Next ==
    \/ AdapterInit(<<"org", "repo">>)
    \/ Restart
    \/ \E a \in UpsertArgs(0..MaxRecords, {0}, {"issue", "spec"}, Payloads), e \in {Q, C} :
          Upsert(a, e)
    \/ \E a \in BadArgs(0..MaxRecords), e \in {Q, C} : Upsert(a, e)
    \/ \E id \in 1..MaxRecords : Delete(id)

Spec == Init /\ [][Next]_vars

-----------------------------------------------------------------------------
(* One project, with the clock: every field of a call differs from the other's,
   the embedding included *)

IssueCall == [kind |-> "issue", title |-> "t1", body |-> "", status |-> "open"]
SpecCall == [kind |-> "spec", title |-> "t2", body |-> "b2", status |-> "resolved"]

\* the embedding of the text of a call
TextEmbedding(a) == IF a.kind = "issue" THEN Q ELSE C

TimedArgs ==
    {[id |-> i, projectId |-> 0, kind |-> c.kind, title |-> c.title,
      body |-> c.body, status |-> c.status] : i \in 0..MaxRecords, c \in {IssueCall, SpecCall}}

NextTime ==
    \/ AdapterInit(<<"org", "repo">>)
    \/ Tick
    \/ \E a \in TimedArgs : Upsert(a, TextEmbedding(a))

SpecTime == Init /\ [][NextTime]_vars

-----------------------------------------------------------------------------
(* The records of a store with their embeddings, whichever way they are kept *)

VecView(db) ==
    [i \in DOMAIN db.record |->
        [project_id |-> db.record[i].project_id, kind |-> db.record[i].kind,
         title |-> db.record[i].title, body |-> db.record[i].body,
         status |-> db.record[i].status,
         embedding |-> IF i \in DOMAIN db.record_embedding
                       THEN db.record_embedding[i] ELSE NullEmbedding,
         created_at |-> db.record[i].created_at,
         updated_at |-> db.record[i].updated_at]]

LibsqlView(db) == db.record

\* two embedded records that the dedup rule takes for the same content
NearDuplicates(view, i, j) ==
    /\ i # j
    /\ view[i].project_id = view[j].project_id
    /\ view[i].kind = view[j].kind
    /\ view[i].embedding # NullEmbedding
    /\ view[j].embedding # NullEmbedding
    /\ Dot(view[i].embedding, view[j].embedding) >= DedupThreshold

-----------------------------------------------------------------------------
(* C5 *)

\* the call replaced row a.id in place and returned it; nothing else moved
UpdatedInPlace(before, after, res, a, e, t) ==
    /\ res.status = "ok" /\ res.branch = "update" /\ res.id = a.id
    /\ DOMAIN after = DOMAIN before
    /\ after[a.id] = [before[a.id] EXCEPT !.kind = a.kind, !.title = a.title,
                                          !.body = a.body, !.status = a.status,
                                          !.embedding = e, !.updated_at = t]
    /\ \A i \in DOMAIN before \ {a.id} : after[i] = before[i]

\* C5: upsert with the id of an existing record replaces that record's kind,
\* title, body, status, embedding and updated_at in place and returns the row
\* with the same id; no other record is modified or removed and the number of
\* records is unchanged (no dedup), on both backends.
C5_UpdateByIdInPlace ==
    [][\A a \in TimedArgs :
         (a.id # 0 /\ last'.op = "upsert") =>
            \/ /\ (Runs("vec") /\ a.id \in DOMAIN vdb.record) =>
                      UpdatedInPlace(VecView(vdb), VecView(vdb'), last'.v,
                                     a, TextEmbedding(a), now)
               /\ (Runs("libsql") /\ a.id \in DOMAIN ldb.record) =>
                      UpdatedInPlace(LibsqlView(ldb), LibsqlView(ldb'), last'.l,
                                     a, TextEmbedding(a), now)
            \/ ~Upsert(a, TextEmbedding(a))]_vars

\* an update by id has just left its record a near-duplicate of another record
\* of the same project and kind, after the clock has advanced
UpdatedNextToDuplicate(view, res) ==
    /\ res.status = "ok" /\ res.branch = "update" /\ res.id \in DOMAIN view
    /\ view[res.id].updated_at > view[res.id].created_at
    /\ \E j \in DOMAIN view : NearDuplicates(view, res.id, j)

C5_Witness ==
    /\ last.op = "upsert"
    /\ \/ Runs("vec") /\ UpdatedNextToDuplicate(VecView(vdb), last.v)
       \/ Runs("libsql") /\ UpdatedNextToDuplicate(LibsqlView(ldb), last.l)

-----------------------------------------------------------------------------
(* Two projects, records of every kind: the k = 5 of the dedup query *)

TopKRecords == 7    \* highest record id in this specification

OnePayload == {[title |-> "t1", body |-> "", status |-> "open"]}

\* calls for the classes around the one under test: another kind or another project
Outsiders ==
    UpsertArgs({0}, {1}, {"spec", "arch", "update"}, OnePayload)
        \cup UpsertArgs({0}, {2}, {"issue", "spec"}, OnePayload)

\* calls for the class under test: project 1, kind issue
Insiders == UpsertArgs({0}, {1}, {"issue"}, Payloads)

\* the stores as earlier processes left them: init() for two projects, then one
\* awaited call to upsert for each element of seq
TwoProjects(db) == InitStore(InitStore(db, <<"org", "repo">>, 0), <<"org", "lib">>, 0)

RECURSIVE VecAfter(_, _)
VecAfter(db, seq) ==
    IF seq = <<>> THEN db
    ELSE VecAfter((CHOOSE o \in VecUpsert(db, NewAdapter, seq[1], Q, 0) : TRUE).db, Tail(seq))

RECURSIVE LibsqlAfter(_, _)
LibsqlAfter(db, seq) ==
    IF seq = <<>> THEN db
    ELSE LibsqlAfter((CHOOSE o \in LibsqlUpsert(db, NewAdapter, seq[1], Q, 0) : TRUE).db,
                     Tail(seq))

OutsiderCall(projectId, kind) ==
    [id |-> 0, projectId |-> projectId, kind |-> kind,
     title |-> "t1", body |-> "", status |-> "open"]

Seeded ==
    <<OutsiderCall(1, "spec"), OutsiderCall(1, "arch"), OutsiderCall(1, "update"),
      OutsiderCall(2, "issue")>>

InitTopK ==
    /\ backend \in {"vec", "libsql"}
    /\ vdb = VecAfter(TwoProjects(EmptyVecDb), Seeded)
    /\ ldb = LibsqlAfter(TwoProjects(EmptyLibsqlDb), Seeded)
    /\ fs = NoFiles
    /\ Stopped

NextTopK ==
    \/ AdapterInit(<<"org", "repo">>)
    \/ Restart
    \/ \E a \in Outsiders : UpsertUpTo(a, Q, TopKRecords)
    \/ \E a \in Insiders, e \in {Q, X} : UpsertUpTo(a, e, TopKRecords)

SpecTopK == InitTopK /\ [][NextTopK]_vars

\* the embedded records of project proj and kind kind within 0.85 of e
DedupTargets(view, proj, kind, e) ==
    {i \in DOMAIN view : /\ view[i].project_id = proj
                         /\ view[i].kind = kind
                         /\ view[i].embedding # NullEmbedding
                         /\ Dot(e, view[i].embedding) >= DedupThreshold}

\* the call overwrote one of the close records instead of inserting
Deduplicated(before, after, res, proj, a, e) ==
    DedupTargets(before, proj, a.kind, e) # {} =>
        /\ DOMAIN after = DOMAIN before
        /\ res.status = "ok"
        /\ res.id \in DedupTargets(before, proj, a.kind, e)
        /\ after[res.id].title = a.title
        /\ after[res.id].body = a.body
        /\ after[res.id].status = a.status

\* C1: on either backend, an upsert without id whose embedding has similarity
\* >= 0.85 to an existing record of the same project and kind inserts no new
\* record: the record count is unchanged, the returned row's id is that of the
\* existing record, and its title, body and status are those of this call.
C1_DedupInsertsNothing ==
    [][\A a \in Outsiders \cup Insiders, e \in {Q, X} :
         UpsertUpTo(a, e, TopKRecords) =>
            /\ Runs("vec") =>
                  Deduplicated(VecView(vdb), VecView(vdb'), last'.v,
                               ResolveProject(vad, a), a, e)
            /\ Runs("libsql") =>
                  Deduplicated(LibsqlView(ldb), LibsqlView(ldb'), last'.l,
                               ResolveProject(lad, a), a, e)]_vars

-----------------------------------------------------------------------------
(* LibsqlAdapter.upsert called again before an earlier call has returned: the
   calls take turns at every await *)

MaxCallers == 2     \* calls to upsert that can be in flight at once

Callers == 1..MaxCallers

InFlight(c) == c \in DOMAIN calls /\ calls[c].pc # "done"

\* upsert() without id, up to the result of its dedup query: proj, now and the
\* rows with similarity >= 0.85 are fixed here
UpsertQuery(c, a, e) ==
    /\ backend = "libsql" /\ lad.db
    /\ ~InFlight(c)
    /\ a.id = 0
    /\ \E rows \in LibsqlCandidates(ldb, ResolveProject(lad, a), a.kind, e) :
          calls' = Put(calls, c,
                       [pc |-> "queried", a |-> a, e |-> e,
                        proj |-> ResolveProject(lad, a), t |-> now,
                        matches |-> LibsqlMatches(ldb, rows, e), res |-> NoResult])
    /\ UNCHANGED <<backend, vdb, ldb, vad, lad, now, last, fs, boot>>

\* the statement after the loop's test: UPDATE of the first close row, or INSERT
UpsertWrite(c) ==
    /\ c \in DOMAIN calls /\ calls[c].pc = "queried"
    /\ \E o \in LibsqlWrites(ldb, calls[c].proj, calls[c].matches,
                              calls[c].a, calls[c].e, calls[c].t) :
          /\ o.db.rseq <= MaxRecords
          /\ ldb' = o.db
          /\ calls' = [calls EXCEPT ![c].pc = IF o.res.status = "ok" THEN "written"
                                               ELSE "done",
                                    ![c].res = o.res]
    /\ UNCHANGED <<backend, vdb, vad, lad, now, last, fs, boot>>

\* return this.get(id)
UpsertReturn(c) ==
    /\ c \in DOMAIN calls /\ calls[c].pc = "written"
    /\ calls' = [calls EXCEPT ![c].pc = "done",
                              ![c].res.id = getRecord(ldb, calls[c].res.id)]
    /\ UNCHANGED <<backend, vdb, ldb, vad, lad, now, last, fs, boot>>

InitConc == backend = "libsql" /\ Constructed

NextConc ==
    \/ AdapterInit(<<"org", "repo">>)
    \/ \E c \in Callers, a \in UpsertArgs({0}, {0}, {"issue", "spec"}, OnePayload),
          e \in {Q, X} : UpsertQuery(c, a, e)
    \/ \E c \in Callers : UpsertWrite(c)
    \/ \E c \in Callers : UpsertReturn(c)

SpecConc == InitConc /\ [][NextConc]_vars

\* C2: two upserts without id on one native adapter, same project and kind,
\* embeddings within 0.85 of each other, whose executions interleave, leave
\* exactly one record: never both insert.  (Every embedding of this
\* specification is within 0.85 of every other, so one record per kind.)
C2_InterleavedUpsertsLeaveOne ==
    \A i, j \in DOMAIN ldb.record : ~NearDuplicates(LibsqlView(ldb), i, j)

-----------------------------------------------------------------------------
(* C3 *)

NoNearDuplicates(view) == \A i, j \in DOMAIN view : ~NearDuplicates(view, i, j)

\* C3: after any sequence of upsert (with or without id), delete and
\* project-merge operations starting from an empty store, no two records of
\* the same project and the same kind have embeddings whose similarity to each
\* other is >= 0.85.
C3_NoNearDuplicates ==
    /\ Runs("vec") => NoNearDuplicates(VecView(vdb))
    /\ Runs("libsql") => NoNearDuplicates(LibsqlView(ldb))

-----------------------------------------------------------------------------
(* Two projects, one the bare name of the other: current and explicit projectId,
   the legacy-identity merge at init *)

\* upserts without id, for the current project or an explicit one
ProjectArgs == UpsertArgs({0}, 0..MaxProjects, {"issue", "spec"}, OnePayload)

NextProjects ==
    \/ AdapterInit(<<"org", "repo">>)
    \/ AdapterInit(<<"repo">>)
    \/ Restart
    \/ \E a \in ProjectArgs, e \in {Q, X} : Upsert(a, e)

SpecProjects == Init /\ [][NextProjects]_vars

\* every record outside the class (proj, kind) is still there, untouched
OnlyClassTouched(before, after, proj, kind) ==
    \A i \in DOMAIN before :
        /\ i \in DOMAIN after
        /\ (before[i].project_id # proj \/ before[i].kind # kind) => after[i] = before[i]

\* with no close record in the class, the call created a record of the class
InsertedWhenClassClear(before, after, res, proj, a, e) ==
    DedupTargets(before, proj, a.kind, e) = {} =>
        /\ res.status = "ok" /\ res.branch = "insert"
        /\ res.id \notin DOMAIN before
        /\ DOMAIN after = DOMAIN before \cup {res.id}
        /\ after[res.id].project_id = proj
        /\ after[res.id].kind = a.kind
        /\ after[res.id].embedding = e

\* C4: the record overwritten by a dedup upsert always has the project and the
\* kind of the call: an upsert without id never modifies a record of another
\* kind or of another project, even one with an identical embedding, and then
\* (no close record in the call's own class, the project existing) a new
\* record with a different id is created.
C4_DedupStaysInClass ==
    [][\A a \in ProjectArgs, e \in {Q, X} :
         last'.op = "upsert" =>
            \/ /\ Runs("vec") =>
                      OnlyClassTouched(VecView(vdb), VecView(vdb'),
                                       ResolveProject(vad, a), a.kind)
               /\ Runs("libsql") =>
                      /\ OnlyClassTouched(LibsqlView(ldb), LibsqlView(ldb'),
                                          ResolveProject(lad, a), a.kind)
                      /\ ResolveProject(lad, a) \in DOMAIN ldb.project =>
                            InsertedWhenClassClear(LibsqlView(ldb), LibsqlView(ldb'),
                                                   last'.l, ResolveProject(lad, a), a, e)
            \/ ~Upsert(a, e)]_vars

\* the record just inserted has the embedding and the kind of a record of another
\* project
InsertedNextToTwin(view, res) ==
    /\ res.status = "ok" /\ res.branch = "insert" /\ res.id \in DOMAIN view
    /\ \E j \in DOMAIN view :
          /\ view[j].embedding = view[res.id].embedding
          /\ view[j].kind = view[res.id].kind
          /\ view[j].project_id # view[res.id].project_id

C4_Witness ==
    /\ last.op = "upsert"
    /\ Runs("libsql") /\ InsertedNextToTwin(LibsqlView(ldb), last.l)

-----------------------------------------------------------------------------
(* The backend selector: initDb, _autoMigrate, migrate, migrateFromDb.  vdb is the
   content of the legacy file (dude.db, later dude.db.backup), ldb that of the
   native file; a process runs initDb once and can end, or be killed, anywhere *)

LegacyRecords == 2     \* records in the legacy store of an installation

Prefix(seq, n) == SubSeq(seq, 1, n)

\* the legacy stores an installation can hold when the native version first starts
LegacyStores ==
    {VecAfter(TwoProjects(EmptyVecDb), Prefix(Seeded, n)) : n \in 0..LegacyRecords}

RECURSIVE Ascending(_)
Ascending(S) ==
    IF S = {} THEN <<>>
    ELSE LET least == CHOOSE i \in S : \A j \in S : i <= j
         IN <<least>> \o Ascending(S \ {least})

\* the awaited statements of migrateFromDb, in order
MigrationPlan(old) ==
    <<[table |-> "schema", id |-> 0]>>
        \o [n \in 1..Cardinality(DOMAIN old.project) |->
               [table |-> "project", id |-> Ascending(DOMAIN old.project)[n]]]
        \o [n \in 1..Cardinality(DOMAIN old.record) |->
               [table |-> "record", id |-> Ascending(DOMAIN old.record)[n]]]

Max(a, b) == IF a < b THEN b ELSE a

\* createSchema(newDb)
createSchema(new) == new

\* the project copied by name alone: the native store numbers and stamps it
CopyProjectByName(old, new, id) ==
    [new EXCEPT !.project = Put(new.project, new.pseq + 1,
                                [name |-> old.project[id].name,
                                 created_at |-> 0, updated_at |-> 0]),
                !.pseq = new.pseq + 1]

\* a record without embedding row copied with a placeholder vector
CopyRecordWithPlaceholder(old, new, id) ==
    [new EXCEPT
        !.record = Put(new.record, id,
            [project_id |-> old.record[id].project_id, kind |-> old.record[id].kind,
             title |-> old.record[id].title, body |-> old.record[id].body,
             status |-> old.record[id].status,
             embedding |-> IF id \in DOMAIN old.record_embedding
                           THEN vector(embeddingToJson(old.record_embedding[id]))
                           ELSE vector(embeddingToJson(Q)),
             created_at |-> old.record[id].created_at,
             updated_at |-> old.record[id].updated_at]),
        !.rseq = Max(new.rseq, id)]

\* INSERT INTO project (id, name, created_at, updated_at)
CopyProject(old, new, id) ==
    [new EXCEPT !.project = Put(new.project, id, old.project[id]),
                !.pseq = Max(new.pseq, id)]

\* INSERT INTO record (...) with vector(JSON.stringify(floats)), or NULL when the
\* record has no embedding row
CopyRecord(old, new, id) ==
    [new EXCEPT
        !.record = Put(new.record, id,
            [project_id |-> old.record[id].project_id, kind |-> old.record[id].kind,
             title |-> old.record[id].title, body |-> old.record[id].body,
             status |-> old.record[id].status,
             embedding |-> IF id \in DOMAIN old.record_embedding
                           THEN vector(embeddingToJson(old.record_embedding[id]))
                           ELSE NullEmbedding,
             created_at |-> old.record[id].created_at,
             updated_at |-> old.record[id].updated_at]),
        !.rseq = Max(new.rseq, id)]

MigrationWrite(old, new, stmt) ==
    IF stmt.table = "schema" THEN createSchema(new)
    ELSE IF stmt.table = "project" THEN CopyProject(old, new, stmt.id)
    ELSE CopyRecord(old, new, stmt.id)

\* initDb migrating whenever the legacy file exists, the native file or not
StartMigrationIfOld ==
    /\ boot.pc = "none"
    /\ fs.old
    /\ boot' = [pc |-> "migrating", step |-> 1, error |-> "none"]
    /\ UNCHANGED <<backend, vdb, ldb, vad, lad, now, last, calls, fs>>

\* initDb: existsSync(OLD_DB) && !existsSync(NEW_DB), the import succeeds,
\* migrate() opens both files
StartMigration ==
    /\ boot.pc = "none"
    /\ fs.old /\ ~fs.new
    /\ boot' = [pc |-> "migrating", step |-> 1, error |-> "none"]
    /\ UNCHANGED <<backend, vdb, ldb, vad, lad, now, last, calls, fs>>

\* the import of the migration script fails (better-sqlite3 or sqlite-vec missing)
ImportFails ==
    /\ boot.pc = "none"
    /\ fs.old /\ ~fs.new
    /\ boot' = [pc |-> "failed", step |-> 0, error |-> "import"]
    /\ UNCHANGED <<backend, vdb, ldb, vad, lad, now, last, calls, fs>>

\* one awaited statement of migrateFromDb on the native file
MigrateStep ==
    /\ boot.pc = "migrating"
    /\ boot.step <= Len(MigrationPlan(vdb))
    /\ ldb' = MigrationWrite(vdb, ldb, MigrationPlan(vdb)[boot.step])
    /\ fs' = [fs EXCEPT !.new = TRUE]
    /\ boot' = [boot EXCEPT !.step = @ + 1]
    /\ UNCHANGED <<backend, vdb, vad, lad, now, last, calls>>

\* a statement of migrate() throws: unlink(NEW_DB) if it exists, errors of the
\* cleanup ignored, then the wrapped error is thrown out of initDb
MigrateThrows(unlinked) ==
    /\ boot.pc = "migrating"
    /\ boot.step <= Len(MigrationPlan(vdb))
    /\ fs' = IF fs.new /\ unlinked THEN [fs EXCEPT !.new = FALSE] ELSE fs
    /\ ldb' = IF fs.new /\ unlinked THEN EmptyLibsqlDb ELSE ldb
    /\ boot' = [pc |-> "failed", step |-> 0, error |-> "migration"]
    /\ UNCHANGED <<backend, vdb, vad, lad, now, last, calls>>

\* migrate() has returned: rename(OLD_DB, OLD_DB.backup), a failure only logged
RenameOld(renamed) ==
    /\ boot.pc = "migrating"
    /\ boot.step > Len(MigrationPlan(vdb))
    /\ fs' = IF renamed THEN [fs EXCEPT !.old = FALSE, !.backup = TRUE] ELSE fs
    /\ boot' = [pc |-> "open", step |-> 0, error |-> "none"]
    /\ UNCHANGED <<backend, vdb, ldb, vad, lad, now, last, calls>>

\* initDb without migration: fresh install, or the native file exists
SkipMigration ==
    /\ boot.pc = "none"
    /\ ~(fs.old /\ ~fs.new)
    /\ boot' = [pc |-> "open", step |-> 0, error |-> "none"]
    /\ UNCHANGED <<backend, vdb, ldb, vad, lad, now, last, calls, fs>>

\* adapter = new LibsqlAdapter({ dbPath: NEW_DB }); await adapter.init(); return
OpenNative(projectName) ==
    /\ boot.pc = "open"
    /\ InitStore(ldb, projectName, now).pseq <= MaxProjects
    /\ ldb' = InitStore(ldb, projectName, now)
    /\ lad' = InitAdapter(ldb, projectName, now)
    /\ fs' = [fs EXCEPT !.new = TRUE]
    /\ boot' = [pc |-> "ready", step |-> 0, error |-> "none"]
    /\ UNCHANGED <<backend, vdb, vad, now, last, calls>>

\* the process ends or is killed; the files stay as they are
Exit ==
    /\ boot.pc # "none"
    /\ boot' = NotStarted
    /\ lad' = NewAdapter
    /\ UNCHANGED <<backend, vdb, ldb, vad, now, last, calls, fs>>

InitBoot ==
    /\ backend = "libsql"
    /\ \/ fs = [NoFiles EXCEPT !.old = TRUE] /\ vdb \in LegacyStores
       \/ fs = NoFiles /\ vdb = EmptyVecDb
    /\ ldb = EmptyLibsqlDb
    /\ Stopped

NextBoot ==
    \/ StartMigration
    \/ ImportFails
    \/ MigrateStep
    \/ \E unlinked \in BOOLEAN : MigrateThrows(unlinked)
    \/ \E renamed \in BOOLEAN : RenameOld(renamed)
    \/ SkipMigration
    \/ OpenNative(<<"org", "repo">>)
    \/ OpenNative(<<"org", "lib">>)
    \/ Exit

SpecBoot == InitBoot /\ [][NextBoot]_vars

\* every project and every record of the legacy store is in the native store
Migrated(old, new) ==
    /\ \A i \in DOMAIN old.project :
          i \in DOMAIN new.project /\ new.project[i].name = old.project[i].name
    /\ \A i \in DOMAIN old.record :
          i \in DOMAIN new.record /\ LibsqlView(new)[i] = VecView(old)[i]

\* C6: whenever initDb returns an adapter on the native store of an
\* installation that had a legacy store, every project and every record of the
\* legacy store is present in the native store, whatever startups came before
\* (failed or interrupted migrations included).
C6_NoDataLoss ==
    (boot.pc = "ready" /\ (fs.old \/ fs.backup)) => Migrated(vdb, ldb)

\* C7: if the migration raises an error, then once initDb has failed the
\* legacy file is still there (nothing writes it), no native file remains, the
\* error thrown is the wrapped migration error, and the next startup finds the
\* files as a first startup does, so it migrates again.
C7_FailedMigrationCleansUp ==
    (boot.pc = "failed" /\ boot.error = "migration") =>
        /\ fs.old /\ ~fs.backup
        /\ ~fs.new
        /\ ldb = EmptyLibsqlDb

-----------------------------------------------------------------------------
(* Both backends in lockstep: the same calls on each, starting from empty stores *)

InitEquiv == backend = "both" /\ Constructed

NextEquiv ==
    \/ AdapterInit(<<"org", "repo">>)
    \/ \E a \in UpsertArgs(0..MaxRecords, {0}, {"issue"}, OnePayload), e \in {Q, C} :
          Upsert(a, e)
    \/ \E id \in 1..MaxRecords : Delete(id)
    \/ \E limit \in 1..MaxRecords : Search(Q, "all", limit)

SpecEquiv == InitEquiv /\ [][NextEquiv]_vars

\* the same rows with the same similarities, in the same order up to the order
\* of rows of equal similarity
SameRows(v, l) ==
    /\ Len(v) = Len(l)
    /\ \A n \in 1..Len(v) : v[n].similarity = l[n].similarity
    /\ {v[n] : n \in 1..Len(v)} = {l[n] : n \in 1..Len(l)}

\* C8: the same sequence of upsert, delete and search calls gives equivalent
\* outcomes on the legacy and on the native backend: every upsert takes the
\* same branch on the same record (or fails on both), every delete reports the
\* same, every search returns the same records with the same similarities in
\* the same order.
C8_BackendsEquivalent ==
    /\ last.v.status = last.l.status
    /\ last.v.branch = last.l.branch
    /\ last.v.id = last.l.id
    /\ SameRows(last.v.rows, last.l.rows)

-----------------------------------------------------------------------------
(* Two projects and search: records far from the query, in and out of the
   current project *)

NextSearch ==
    \/ AdapterInit(<<"org", "repo">>)
    \/ AdapterInit(<<"org", "lib">>)
    \/ Restart
    \/ \E a \in UpsertArgs({0}, {0}, {"issue", "spec"}, OnePayload), e \in {C, W, Z} :
          Upsert(a, e)
    \/ \E kind \in {"all", "issue"}, limit \in {0, 1} : Search(Q, kind, limit)

SpecSearch == Init /\ [][NextSearch]_vars

\* the similarity of record id to the query e before any boost
RawSimilarity(view, e, id) ==
    IF view[id].embedding = NullEmbedding THEN 0 ELSE Dot(e, view[id].embedding)

OfCurrentProject(view, projects, ad, id) ==
    projects[view[id].project_id].name = ad.currentProject.name

\* every returned row has raw similarity >= 0.3
RawFloor(view, e, rows) ==
    \A n \in 1..Len(rows) : RawSimilarity(view, e, rows[n].id) >= RelevanceFloor

\* every returned row has boosted similarity >= 0.3: raw >= 0.3 outside the
\* current project, raw >= 0.2 inside it
BoostedFloor(view, projects, ad, e, rows) ==
    \A n \in 1..Len(rows) :
        /\ rows[n].similarity >= RelevanceFloor
        /\ IF OfCurrentProject(view, projects, ad, rows[n].id)
           THEN RawSimilarity(view, e, rows[n].id) >= RelevanceFloor - ProjectBoost
           ELSE RawSimilarity(view, e, rows[n].id) >= RelevanceFloor

\* C9 as stated: no record whose raw (un-boosted) similarity to the query is
\* below 0.3 ever appears in the results of search, whether or not the record
\* belongs to the current project.
C9_RawFloor ==
    [][\A kind \in {"all", "issue"}, limit \in {0, 1} :
         Search(Q, kind, limit) =>
            /\ Runs("vec") => RawFloor(VecView(vdb), Q, last'.v.rows)
            /\ Runs("libsql") => RawFloor(LibsqlView(ldb), Q, last'.l.rows)]_vars

\* C9 amended: no record whose boosted similarity is below 0.3 appears in the
\* results of search: a record of another project never appears with raw
\* similarity below 0.3, a record of the current project never with raw
\* similarity below 0.2.
C9_BoostedFloor ==
    [][\A kind \in {"all", "issue"}, limit \in {0, 1} :
         last'.op = "search" =>
            \/ /\ Runs("vec") =>
                      BoostedFloor(VecView(vdb), vdb.project, vad, Q, last'.v.rows)
               /\ Runs("libsql") =>
                      BoostedFloor(LibsqlView(ldb), ldb.project, lad, Q, last'.l.rows)
            \/ ~Search(Q, kind, limit)]_vars

\* a search for Q has returned a record of the current project whose raw
\* similarity is below 0.3, and left out a record of another project with the
\* same embedding
BoostedIn(view, projects, ad, rows) ==
    \E n \in 1..Len(rows), j \in DOMAIN view :
        /\ OfCurrentProject(view, projects, ad, rows[n].id)
        /\ RawSimilarity(view, Q, rows[n].id) < RelevanceFloor
        /\ ~OfCurrentProject(view, projects, ad, j)
        /\ view[j].embedding = view[rows[n].id].embedding
        /\ \A m \in 1..Len(rows) : rows[m].id # j

C9_Witness ==
    /\ last.op = "search"
    /\ \/ Runs("vec") /\ BoostedIn(VecView(vdb), vdb.project, vad, last.v.rows)
       \/ Runs("libsql") /\ BoostedIn(LibsqlView(ldb), ldb.project, lad, last.l.rows)

-----------------------------------------------------------------------------
(* C10 *)

\* the call returned without throwing exactly when kind and status are valid
SucceedsIffValid(res, a) == (res.status = "ok") <=> CheckRecord(a.kind, a.status)

\* C10: for a non-empty title, upsert (insert, dedup overwrite or update by id)
\* succeeds if and only if kind is one of issue, spec, arch, update and status
\* is one of open, resolved, archived; with any other kind or status it fails
\* with an error.
C10_ValidIffSucceeds ==
    [][\A a \in UpsertArgs(0..MaxRecords, {0}, {"issue", "spec"}, Payloads)
                   \cup BadArgs(0..MaxRecords), e \in {Q, C} :
         Upsert(a, e) =>
            /\ Runs("vec") => SucceedsIffValid(last'.v, a)
            /\ Runs("libsql") => SucceedsIffValid(last'.l, a)]_vars

-----------------------------------------------------------------------------
(* Calls the store rejects, and calls with an empty title *)

\* a valid call, an empty title, a missing title, a status outside the CHECK
TitlePayloads ==
    {[title |-> "t1", body |-> "", status |-> "open"],
     [title |-> "", body |-> "", status |-> "open"],
     [title |-> Undefined, body |-> "", status |-> "open"],
     [title |-> "t1", body |-> "", status |-> "bogus"]}

TitleArgs ==
    UpsertArgs(0..MaxRecords, {0}, {"issue"}, TitlePayloads)
        \cup UpsertArgs(0..MaxRecords, {0}, {"bogus"}, OnePayload)

NextTitles ==
    \/ AdapterInit(<<"org", "repo">>)
    \/ \E a \in TitleArgs, e \in {Q, C} : Upsert(a, e)
    \/ \E id \in 1..MaxRecords : Delete(id)

SpecTitles == Init /\ [][NextTitles]_vars

\* the result of the last call on the backend that runs
Result == IF Runs("vec") THEN last.v ELSE last.l

\* C11: an upsert that throws wrote nothing: the projects, the records, the
\* embedding rows and the AUTOINCREMENT sequences of both stores are those from
\* before the call, whichever branch (update by id, dedup overwrite, insert) threw
C11_RejectedBeforeAnyWrite ==
    [][(last'.op = "upsert" /\ "error" \in {last'.v.status, last'.l.status})
          => (vdb' = vdb /\ ldb' = ldb)]_vars

\* a call rejected on the overwrite of a near-duplicate, in a store that holds records
C11_Witness ==
    /\ last.op = "upsert"
    /\ Result.status = "error"
    /\ Result.branch = "dedup"
    /\ DOMAIN vdb.record \cup DOMAIN ldb.record # {}

\* C12: no record of either store has an empty title
C12_NoEmptyTitle ==
    /\ \A i \in DOMAIN vdb.record : vdb.record[i].title # ""
    /\ \A i \in DOMAIN ldb.record : ldb.record[i].title # ""

-----------------------------------------------------------------------------
(* The legacy-identity merge of init *)

\* init is called with a namespaced name while its bare name is a project row
MergeDue(before, name) == HasNamespace(name) /\ ProjectIdOf(before, basename(name)) # 0

\* the records of the bare-name project are those of the namespaced one, the
\* bare-name row is gone, every record is there with its id and its other fields
MergedInto(before, after, name) ==
    LET bare == ProjectIdOf(before, basename(name))
        cur == ProjectIdOf(after, name)
    IN /\ cur \in DOMAIN after.project
       /\ bare \notin DOMAIN after.project
       /\ ProjectIdOf(after, basename(name)) = 0
       /\ DOMAIN after.record = DOMAIN before.record
       /\ \A i \in DOMAIN before.record :
             after.record[i] =
                [before.record[i] EXCEPT !.project_id = IF @ = bare THEN cur ELSE @]

\* C13: an init that resolves an org/repo name while a project of the bare name
\* exists leaves every record of the bare-name project owned by the namespaced
\* project and the bare-name project deleted; the set of record ids, every other
\* field of every record and (legacy store) every embedding row are unchanged
C13_MergeMovesRecords ==
    [][last'.op = "init" =>
          /\ (Runs("vec") /\ MergeDue(vdb, vad'.currentProject.name))
                => /\ MergedInto(vdb, vdb', vad'.currentProject.name)
                   /\ vdb'.record_embedding = vdb.record_embedding
          /\ (Runs("libsql") /\ MergeDue(ldb, lad'.currentProject.name))
                => MergedInto(ldb, ldb', lad'.currentProject.name)]_vars

\* the store the running backend keeps
Store == IF Runs("vec") THEN vdb ELSE ldb

\* init has just merged: the only project row is the namespaced one, created
\* second, and it owns a record
C13_Witness ==
    /\ last.op = "init"
    /\ Store.pseq = 2
    /\ DOMAIN Store.project = {2}
    /\ Store.project[2].name = <<"org", "repo">>
    /\ \E i \in DOMAIN Store.record : Store.record[i].project_id = 2

-----------------------------------------------------------------------------
(* init, statement by statement: the merge is an UPDATE and a DELETE sent one
   after the other, with no transaction around them, and the process can stop
   (or the DELETE can throw) in between *)

\* what the UPDATE of the merge did: the legacy project's id, and whether it owned records
Reassigned(db, old) ==
    [NoResult EXCEPT !.status = "ok", !.id = old,
                     !.branch = IF \E i \in DOMAIN db.record : db.record[i].project_id = old
                                THEN "reassigned" ELSE "nothing"]

\* init() up to and including the UPDATE of the merge; the whole of init() when
\* there is nothing to merge
InitBegin(projectName) ==
    LET withProject == upsertProject(Store, projectName, now)
        cur == ProjectRow(withProject, projectName)
        old == ProjectIdOf(withProject, basename(projectName))
        after == IF NeedsMerge(withProject, cur, projectName)
                 THEN ReassignRecords(withProject, old, cur.id) ELSE withProject
        res == Reassigned(withProject, old)
    IN /\ Fresh
       /\ boot.pc # "merge"
       /\ withProject.pseq <= MaxProjects
       /\ vdb' = IF Runs("vec") THEN after ELSE vdb
       /\ ldb' = IF Runs("libsql") THEN after ELSE ldb
       /\ IF NeedsMerge(withProject, cur, projectName)
          THEN /\ boot' = [pc |-> "merge", step |-> old, error |-> "none"]
               /\ vad' = IF Runs("vec") THEN [db |-> FALSE, currentProject |-> cur] ELSE vad
               /\ lad' = IF Runs("libsql") THEN [db |-> FALSE, currentProject |-> cur] ELSE lad
               /\ last' = [op |-> "reassign",
                           v |-> IF Runs("vec") THEN res ELSE NoResult,
                           l |-> IF Runs("libsql") THEN res ELSE NoResult]
          ELSE /\ boot' = NotStarted
               /\ vad' = IF Runs("vec") THEN [db |-> TRUE, currentProject |-> cur] ELSE vad
               /\ lad' = IF Runs("libsql") THEN [db |-> TRUE, currentProject |-> cur] ELSE lad
               /\ last' = [NoCall EXCEPT !.op = "init"]
       /\ UNCHANGED <<backend, now, calls, fs>>

\* DELETE FROM project WHERE id = oldProject.id; init() returns
MergeDelete ==
    /\ boot.pc = "merge"
    /\ vdb' = IF Runs("vec") THEN DeleteProject(vdb, boot.step) ELSE vdb
    /\ ldb' = IF Runs("libsql") THEN DeleteProject(ldb, boot.step) ELSE ldb
    /\ vad' = IF Runs("vec") THEN [vad EXCEPT !.db = TRUE] ELSE vad
    /\ lad' = IF Runs("libsql") THEN [lad EXCEPT !.db = TRUE] ELSE lad
    /\ boot' = NotStarted
    /\ last' = [NoCall EXCEPT !.op = "init"]
    /\ UNCHANGED <<backend, now, calls, fs>>

\* the process stops after the UPDATE (killed, or the DELETE threw out of init)
MergeStops ==
    /\ boot.pc = "merge"
    /\ vad' = NewAdapter
    /\ lad' = NewAdapter
    /\ boot' = [boot EXCEPT !.pc = "stopped"]
    /\ UNCHANGED <<backend, vdb, ldb, now, last, calls, fs>>

MergeArgs == UpsertArgs({0}, {0}, {"issue"}, Payloads)

NextMerge ==
    \/ InitBegin(<<"repo">>)
    \/ InitBegin(<<"org", "repo">>)
    \/ MergeDelete
    \/ MergeStops
    \/ Restart
    \/ \E a \in MergeArgs, e \in {Q, Z} : Upsert(a, e)
    \/ \E id \in 1..MaxRecords : Delete(id)

SpecMerge == Init /\ [][NextMerge]_vars

\* C14: no process stops with the store in a state where the merge has handed
\* the legacy project's records to the namespaced project and the legacy
\* project row is still there
C14_MergeAtomic ==
    ~(/\ boot.pc = "stopped"
      /\ last.op = "reassign"
      /\ Result.branch = "reassigned"
      /\ Result.id \in DOMAIN Store.project)

-----------------------------------------------------------------------------
(* SqliteVecAdapter._runMigrations: the schema migration steps and their marker *)

\* the version each file of ./migrations exports, in file-name order:
\* 001-initial.js, 002-expand-kinds.js
Steps == <<1, 2>>

\* SELECT MAX(version) AS v FROM schema_version; row?.v ?? 0
Marker(db) ==
    IF db.schema_version = {} THEN 0
    ELSE CHOOSE v \in db.schema_version : \A w \in db.schema_version : w <= v

\* the kinds the CHECK of table record admits after the steps up to m; none
\* before the table exists
KindsAt(m) ==
    IF m = 0 THEN {} ELSE IF m = 1 THEN {"issue", "spec"} ELSE ValidKinds

\* mod.up(d) can run: step 1 creates the tables, a later step rebuilds table record
Applies(db, version) ==
    /\ version \notin db.schema_version
    /\ IF version = 1 THEN db.kinds = {} ELSE db.kinds # {}

\* mod.up(d): the rows stay, the CHECK on kind is the step's
up(db, version) == [db EXCEPT !.kinds = KindsAt(version)]

\* the step committed without its row in schema_version
RunTransactionNoMarker(db, version, outcome) ==
    IF outcome = "commit" /\ Applies(db, version)
    THEN [db |-> up(db, version), ok |-> TRUE]
    ELSE [db |-> db, ok |-> FALSE]

\* the step run in autocommit mode: what mod.up did stays when the INSERT INTO
\* schema_version after it throws
RunTransactionNoRollback(db, version, outcome) ==
    IF outcome = "commit" /\ Applies(db, version)
    THEN [db |-> [up(db, version) EXCEPT !.schema_version = @ \cup {version}], ok |-> TRUE]
    ELSE [db |-> IF Applies(db, version) THEN up(db, version) ELSE db, ok |-> FALSE]

\* d.transaction(() => { mod.up(d); INSERT INTO schema_version ... })(): both
\* are committed together, or a throw inside rolls both back
RunTransaction(db, version, outcome) ==
    IF outcome = "commit" /\ Applies(db, version)
    THEN [db |-> [up(db, version) EXCEPT !.schema_version = @ \cup {version}], ok |-> TRUE]
    ELSE [db |-> db, ok |-> FALSE]

\* a store file with the schema the steps up to m leave
WithSchema(db, m) == db @@ [schema_version |-> 1..m, kinds |-> KindsAt(m)]

\* the store files a process can find: none yet, or the file of an
\* installation that ran step 1 alone, holding a project and its records
SchemaStores ==
    LET repo == InitStore(EmptyVecDb, <<"repo">>, 0)
        issue == [id |-> 0, projectId |-> 1, kind |-> "issue", title |-> "t1",
                  body |-> "", status |-> "open"]
    IN {WithSchema(EmptyVecDb, 0), WithSchema(repo, 1),
        WithSchema(VecInsert(repo, 1, issue, Q, 0).db, 1)}

\* init(): _openDb, CREATE TABLE IF NOT EXISTS schema_version, currentVersion read
OpenLegacy ==
    /\ boot.pc = "none"
    /\ boot' = [pc |-> "migrating", step |-> 1, error |-> "none",
                currentVersion |-> Marker(vdb)]
    /\ UNCHANGED <<backend, vdb, ldb, vad, lad, now, last, calls, fs>>

\* one turn of for (const file of files): the step is run in its transaction
\* when mod.version > currentVersion; a throw leaves init()
MigrationStep(outcome) ==
    /\ boot.pc = "migrating"
    /\ boot.step <= Len(Steps)
    /\ IF Steps[boot.step] > boot.currentVersion
       THEN LET tx == RunTransaction(vdb, Steps[boot.step], outcome)
            IN /\ vdb' = tx.db
               /\ boot' = IF tx.ok THEN [boot EXCEPT !.step = @ + 1]
                          ELSE [boot EXCEPT !.pc = "failed", !.error = "migration"]
       ELSE /\ outcome = "commit"
            /\ vdb' = vdb
            /\ boot' = [boot EXCEPT !.step = @ + 1]
    /\ UNCHANGED <<backend, ldb, vad, lad, now, last, calls, fs>>

\* the rest of init(): _detectProject, _upsertProject, _migrateProjectNames
FinishInit(projectName) ==
    /\ boot.pc = "migrating"
    /\ boot.step > Len(Steps)
    /\ InitStore(vdb, projectName, now).pseq <= MaxProjects
    /\ vdb' = InitStore(vdb, projectName, now)
    /\ vad' = InitAdapter(vdb, projectName, now)
    /\ boot' = [boot EXCEPT !.pc = "ready"]
    /\ last' = [NoCall EXCEPT !.op = "init"]
    /\ UNCHANGED <<backend, ldb, lad, now, calls, fs>>

\* the process ends: after its work, or because init() threw
ProcessExit ==
    /\ boot.pc \in {"ready", "failed"}
    /\ boot' = NotStarted
    /\ vad' = NewAdapter
    /\ last' = NoCall
    /\ UNCHANGED <<backend, vdb, ldb, lad, now, calls, fs>>

InitSchema ==
    /\ backend = "vec"
    /\ vdb \in SchemaStores
    /\ ldb = EmptyLibsqlDb
    /\ fs = NoFiles
    /\ Stopped

SchemaArgs == UpsertArgs({0}, {0}, {"issue", "arch"}, OnePayload)

NextSchema ==
    \/ OpenLegacy
    \/ \E outcome \in {"commit", "throw"} : MigrationStep(outcome)
    \/ FinishInit(<<"repo">>)
    \/ FinishInit(<<"org", "repo">>)
    \/ ProcessExit
    \/ \E a \in SchemaArgs, e \in {Q, Z} : Upsert(a, e)

SpecSchema == InitSchema /\ [][NextSchema]_vars

\* the schema is the one the steps 1..Marker leave, each recorded once
SchemaMatchesMarker(db) ==
    /\ db.schema_version = 1..Marker(db)
    /\ db.kinds = KindsAt(Marker(db))

\* a change of the schema or of schema_version is the step right above the marker
NextStepOnly(before, after) ==
    (after.schema_version # before.schema_version \/ after.kinds # before.kinds)
        => /\ after.schema_version = before.schema_version \cup {Marker(before) + 1}
           /\ after.kinds = up(before, Marker(before) + 1).kinds
           /\ Marker(before) + 1 > boot.currentVersion

\* C15: over any number of initializations the steps are applied in ascending
\* version order, each once: whatever changes the schema applies the step just
\* above the marker and records it; a step at or below the marker read at the
\* start is not applied; the marker never decreases; and in every state the
\* recorded versions are 1..marker and the schema is that of the steps up to it
C15_StepsOnceInOrder ==
    /\ []SchemaMatchesMarker(vdb)
    /\ [][Marker(vdb') >= Marker(vdb) /\ NextStepOnly(vdb, vdb')]_vars

\* an initialization that found the marker at 1 has applied step 2 alone and
\* the adapter is ready on the records that were there
C15_Witness ==
    /\ boot.pc = "ready"
    /\ boot.currentVersion = 1
    /\ Marker(vdb) = 2
    /\ DOMAIN vdb.record # {}

\* C16: when a step throws, the store is as it was before the step (schema and
\* marker included), the failing step is the one just above the marker, no
\* step runs afterwards in that initialization, and the next initialization
\* reads the marker the failure left and so begins with the failed step
C16_StepAtomic ==
    [][/\ (boot.pc = "migrating" /\ boot'.pc = "failed")
            => (vdb' = vdb /\ Steps[boot'.step] = Marker(vdb') + 1)
       /\ boot.pc = "failed" => (vdb' = vdb /\ boot' = NotStarted)
       /\ (boot.pc = "none" /\ boot'.pc = "migrating")
            => (boot'.currentVersion = Marker(vdb)
                /\ boot'.currentVersion + 1 \notin vdb.schema_version)
       /\ (boot.pc = "migrating" /\ vdb' # vdb /\ boot'.pc = "migrating")
            => Marker(vdb') = Marker(vdb) + 1]_vars

\* step 1 was committed and step 2 threw in the same initialization
C16_Witness ==
    /\ boot.pc = "failed"
    /\ boot.currentVersion = 0
    /\ Marker(vdb) = 1

-----------------------------------------------------------------------------
(* migrate / migrateFromDb on a legacy store of any content, then the native
   adapter on what it wrote *)

SourceRecords == 3     \* records in the legacy store handed to migrateFromDb

SourceNames == <<<<"repo">>, <<"org", "repo">>, <<"org", "lib">>, <<"lib">>>>

\* a legacy store: p projects, n records spread over them, embedding rows for
\* the records in S, and possibly an embedding row that belongs to no record
SourceStore(p, n, S, orphan) ==
    [project |-> [i \in 1..p |-> [name |-> SourceNames[i], created_at |-> 0,
                                  updated_at |-> 1]],
     record |-> [k \in 1..n |->
                    [project_id |-> ((k - 1) % p) + 1,
                     kind |-> IF k % 2 = 1 THEN "issue" ELSE "arch",
                     title |-> IF k % 2 = 1 THEN "t1" ELSE "t2",
                     body |-> "", status |-> "open",
                     created_at |-> 0, updated_at |-> 1]],
     record_embedding |-> [k \in S \cup (IF orphan THEN {n + 1} ELSE {}) |->
                              IF k % 2 = 1 THEN Q ELSE Z],
     pseq |-> p, rseq |-> n]

SourceStores ==
    {SourceStore(0, 0, {}, o) : o \in BOOLEAN}
        \cup UNION {{SourceStore(p, n, S, o) : p \in 1..MaxProjects, S \in SUBSET (1..n),
                                               o \in BOOLEAN} : n \in 0..SourceRecords}

\* the source rows with every copied record deleted from them
MoveSource(old, stmt) ==
    IF stmt.table = "record"
    THEN [old EXCEPT !.record = Remove(old.record, stmt.id),
                     !.record_embedding = Remove(old.record_embedding, stmt.id)]
    ELSE old

\* oldDb.prepare('SELECT ...').all() / .get(): no statement writes oldDb
ReadSource(old, stmt) == old

\* the two stores after the first n statements of migrateFromDb
RECURSIVE MigrateUpTo(_, _, _)
MigrateUpTo(old, new, n) ==
    IF n = 0 THEN [old |-> old, new |-> new]
    ELSE LET prev == MigrateUpTo(old, new, n - 1)
             stmt == MigrationPlan(old)[n]
         IN [old |-> ReadSource(prev.old, stmt),
             new |-> MigrationWrite(old, prev.new, stmt)]

\* embeddingCount++ for every record, embedded or not
RECURSIVE CountEveryRecord(_, _)
CountEveryRecord(old, ids) ==
    IF ids = <<>> THEN 0 ELSE 1 + CountEveryRecord(old, Tail(ids))

\* for (const r of records): if (vec && vec.embedding) embeddingCount++
RECURSIVE CountEmbeddings(_, _)
CountEmbeddings(old, ids) ==
    IF ids = <<>> THEN 0
    ELSE (IF Head(ids) \in DOMAIN old.record_embedding THEN 1 ELSE 0)
            + CountEmbeddings(old, Tail(ids))

\* { projects: projects.length, records: records.length, embeddings: embeddingCount }
MigrationStats(old) ==
    [projects |-> Len(Ascending(DOMAIN old.project)),
     records |-> Len(Ascending(DOMAIN old.record)),
     embeddings |-> CountEmbeddings(old, Ascending(DOMAIN old.record))]

\* the counts a migration returned
Stats == last.l.rows[1]

\* migrate(oldDbPath, newDbUrl): migrateFromDb runs to its end and returns the
\* counts, or one of its statements throws after `done` of them; both handles
\* are closed in either case
Migrate(done) ==
    /\ boot.pc = "none"
    /\ done \in 0..Len(MigrationPlan(vdb))
    /\ vdb' = MigrateUpTo(vdb, ldb, done).old
    /\ ldb' = MigrateUpTo(vdb, ldb, done).new
    /\ IF done = Len(MigrationPlan(vdb))
       THEN /\ boot' = [pc |-> "migrated", step |-> done, error |-> "none"]
            /\ last' = [op |-> "migrate", v |-> NoResult,
                        l |-> [Ok("migrate", 0) EXCEPT !.rows = <<MigrationStats(vdb)>>]]
       ELSE /\ boot' = [pc |-> "failed", step |-> done, error |-> "migration"]
            /\ last' = [op |-> "migrate", v |-> NoResult, l |-> Error("migrate")]
    /\ UNCHANGED <<backend, vad, lad, now, calls, fs>>

\* new LibsqlAdapter on the migrated store; init()
OpenMigrated(projectName) ==
    /\ boot.pc = "migrated"
    /\ InitStore(ldb, projectName, now).pseq <= MaxProjects
    /\ ldb' = InitStore(ldb, projectName, now)
    /\ lad' = InitAdapter(ldb, projectName, now)
    /\ boot' = [boot EXCEPT !.pc = "ready"]
    /\ last' = [NoCall EXCEPT !.op = "init"]
    /\ UNCHANGED <<backend, vdb, vad, now, calls, fs>>

\* the project argument of list: 'current', '*', or a project name
Current == <<"current">>
AllProjects == <<"*">>

\* LibsqlAdapter.list: the ids of the rows, ORDER BY r.updated_at DESC
LibsqlList(db, ad, kind, status, project) ==
    LET projectId == IF project \in {<<>>, Current} THEN ad.currentProject.id
                     ELSE IF project # AllProjects THEN ProjectIdOf(db, project)
                     ELSE 0
        rows == {i \in DOMAIN db.record :
                    /\ db.record[i].project_id \in DOMAIN db.project
                    /\ projectId # 0 => db.record[i].project_id = projectId
                    /\ KindFilter(kind, db.record[i].kind)
                    /\ status \in {"", "all"} \/ db.record[i].status = status}
    IN Ranked([i \in rows |-> db.record[i].updated_at], Cardinality(rows))

\* list({ kind, status, project }) on the native adapter
List(kind, status, project) ==
    /\ Ready
    /\ Runs("libsql")
    /\ \E ids \in LibsqlList(ldb, lad, kind, status, project) :
          last' = [op |-> "list", v |-> NoResult, l |-> [Ok("list", 0) EXCEPT !.rows = ids]]
    /\ UNCHANGED <<backend, vdb, ldb, vad, lad, now, calls, fs, boot>>

\* get(id) on the native adapter
Get(id) ==
    /\ Ready
    /\ Runs("libsql")
    /\ last' = [op |-> "get", v |-> NoResult, l |-> Ok("get", getRecord(ldb, id))]
    /\ UNCHANGED <<backend, vdb, ldb, vad, lad, now, calls, fs, boot>>

InitMigrate ==
    /\ backend = "libsql"
    /\ vdb \in SourceStores
    /\ ldb = EmptyLibsqlDb
    /\ fs = NoFiles
    /\ Stopped

NextMigrate ==
    \/ \E done \in 0..(1 + MaxProjects + SourceRecords) : Migrate(done)
    \/ OpenMigrated(<<"repo">>)
    \/ OpenMigrated(<<"org", "repo">>)
    \/ \E e \in {Q, Z}, limit \in {0, 1} : Search(e, "all", limit)
    \/ \E project \in {<<>>, AllProjects} : List("all", "all", project)
    \/ \E id \in 1..SourceRecords : Get(id)

SpecMigrate == InitMigrate /\ [][NextMigrate]_vars

\* the legacy records that have no embedding row
Unembedded(old) == DOMAIN old.record \ DOMAIN old.record_embedding

\* the native store holds the projects and records of the legacy store, row
\* for row, and nothing else
SameAsLegacy(old, new) ==
    /\ DOMAIN new.project = DOMAIN old.project
    /\ \A i \in DOMAIN old.project : new.project[i] = old.project[i]
    /\ DOMAIN new.record = DOMAIN old.record
    /\ \A i \in DOMAIN old.record :
          /\ \A f \in {"project_id", "kind", "title", "body", "status",
                        "created_at", "updated_at"} :
                new.record[i][f] = old.record[i][f]
          /\ i \in DOMAIN old.record_embedding
                => new.record[i].embedding = old.record_embedding[i]

\* C17: when migrateFromDb has returned on an empty native store, the native
\* store holds exactly the legacy projects (same id, name, timestamps) and
\* exactly the legacy records (same id, project, kind, title, body, status,
\* timestamps, and the embedding of the legacy side-table row)
C17_MigrationCopiesRows ==
    (last.op = "migrate" /\ last.l.status = "ok") => SameAsLegacy(vdb, ldb)

\* a migration has returned on a store with two projects, three records and
\* an embedding row for one of them
C17_Witness ==
    /\ last.op = "migrate" /\ last.l.status = "ok"
    /\ Cardinality(DOMAIN ldb.project) = 2
    /\ Cardinality(DOMAIN ldb.record) = 3
    /\ \E i \in DOMAIN ldb.record : ldb.record[i].embedding = Z

\* C18: the counts migrateFromDb returns are the number of legacy project
\* rows, the number of legacy record rows and the number of legacy records
\* that have an embedding row (never more than the records); an empty source
\* gives 0/0/0 without error
C18_StatsCountRows ==
    (last.op = "migrate" /\ last.l.status = "ok")
        => /\ Stats.projects = Cardinality(DOMAIN vdb.project)
           /\ Stats.records = Cardinality(DOMAIN vdb.record)
           /\ Stats.embeddings =
                 Cardinality(DOMAIN vdb.record \cap DOMAIN vdb.record_embedding)
           /\ Stats.embeddings <= Stats.records
           /\ (DOMAIN vdb.project = {} /\ DOMAIN vdb.record = {})
                 => Stats = [projects |-> 0, records |-> 0, embeddings |-> 0]

\* one project, three records, two of them embedded: { projects: 1, records: 3,
\* embeddings: 2 }
C18_Witness ==
    /\ last.op = "migrate" /\ last.l.status = "ok"
    /\ Cardinality(DOMAIN vdb.project) = 1
    /\ Cardinality(Unembedded(vdb)) = 1
    /\ Stats = [projects |-> 1, records |-> 3, embeddings |-> 2]

\* the ids a result lists
Listed(rows) == {rows[n].id : n \in DOMAIN rows}

\* C19: on the native adapter opened after the migration, a legacy record
\* without embedding row has a null embedding, is in no result of search
\* whatever the query, is returned by get, and is in the list of all projects
\* and in the default list when its project is the current one
C19_UnembeddedListedNotSearched ==
    boot.pc = "ready" =>
        \A i \in Unembedded(vdb) :
            /\ i \in DOMAIN ldb.record
            /\ ldb.record[i].embedding = NullEmbedding
            /\ \A e \in {Q, Z}, limit \in {0, 1} :
                  \A rows \in LibsqlSearch(ldb, lad, e, "all", limit) : i \notin Listed(rows)
            /\ getRecord(ldb, i) = i
            /\ \A ids \in LibsqlList(ldb, lad, "all", "all", AllProjects) :
                  \E n \in DOMAIN ids : ids[n] = i
            /\ ldb.record[i].project_id = lad.currentProject.id
                  => \A ids \in LibsqlList(ldb, lad, "all", "all", <<>>) :
                        \E n \in DOMAIN ids : ids[n] = i

\* a search on a migrated store returned a record while another record of
\* the store has no embedding
C19_Witness ==
    /\ boot.pc = "ready"
    /\ last.op = "search"
    /\ Len(last.l.rows) > 0
    /\ \E i \in Unembedded(vdb) : ldb.record[i].kind = "issue"

\* C20: no step of a migration, completed or failed, changes the legacy store:
\* its project, record and embedding rows stay those from before
C20_SourceUntouched ==
    [][last'.op = "migrate" => vdb' = vdb]_vars

\* a migration failed after it had copied a record of a legacy store that
\* also holds an embedding row without record
C20_Witness ==
    /\ boot.pc = "failed"
    /\ DOMAIN ldb.record # {}
    /\ DOMAIN vdb.record_embedding \ DOMAIN vdb.record # {}
    /\ Unembedded(vdb) # {}

-----------------------------------------------------------------------------
(* initDb: the decision taken from the files on disk *)

\* the three states initDb tells apart
NeedsMigration == fs.old /\ ~fs.new
FreshInstall == ~fs.old /\ ~fs.new
AlreadyMigrated == fs.new

\* C21: a call of initDb runs the migration exactly when, at its start, the
\* legacy file exists and the native file does not; with no file or with the
\* native file present it goes straight to opening the native backend; the
\* native backend is opened after a migration only once every statement of it
\* has run; and the adapter initDb returns is the native one
C21_DecidedFromDisk ==
    [][/\ (boot.pc = "none" /\ boot'.pc = "migrating") => NeedsMigration
       /\ (boot.pc = "none" /\ boot'.pc = "open") => (FreshInstall \/ AlreadyMigrated)
       /\ (boot.pc = "none" /\ NeedsMigration) => boot'.pc \in {"none", "migrating", "failed"}
       /\ (boot.pc = "migrating" /\ boot'.pc = "open")
             => boot.step > Len(MigrationPlan(vdb))
       /\ boot'.pc = "ready"
             => (boot.pc \in {"open", "ready"} /\ lad'.db /\ vad' = NewAdapter)]_vars

\* initDb has returned the native adapter after a migration that copied records
C21_Witness ==
    /\ boot.pc = "ready"
    /\ fs.backup
    /\ lad.db
    /\ DOMAIN ldb.record # {}

-----------------------------------------------------------------------------
(* initDb called again while a call is in progress.  initDb is async: a caller
   gives up control at every await (the import and the statements of the
   migration, the statements of adapter.init()), and another call of initDb,
   or an operation of a caller that already holds the adapter, runs meanwhile.
   calls[c] is the position of call c; boot.pc tells whether the module's
   `adapter` is assigned and boot.step which call assigned it; lad is the
   adapter object `adapter` refers to *)

Started(c) == c \in DOMAIN calls
At(c, pc) == Started(c) /\ calls[c].pc = pc

\* adapter = new LibsqlAdapter(...); adapter.init() up to its first await:
\* this.db is set, currentProject is not
Assigned(c) == [pc |-> "assigned", step |-> c, error |-> "none"]
Opening == [db |-> TRUE, currentProject |-> NoProject]

\* initDb(): `if (adapter) return adapter`, else the decision from the files,
\* up to the first await
CallInitDb(c) ==
    /\ ~Started(c)
    /\ IF boot.pc # "none"
       THEN /\ calls' = Put(calls, c, [pc |-> "returned", step |-> 0, ran |-> FALSE])
            /\ UNCHANGED <<boot, lad>>
       ELSE IF fs.old /\ ~fs.new
       THEN /\ calls' = Put(calls, c, [pc |-> "migrating", step |-> 1, ran |-> TRUE])
            /\ UNCHANGED <<boot, lad>>
       ELSE /\ calls' = Put(calls, c, [pc |-> "opening", step |-> 0, ran |-> FALSE])
            /\ boot' = Assigned(c)
            /\ lad' = Opening
    /\ UNCHANGED <<backend, vdb, ldb, vad, now, last, fs>>

\* a statement of the migration is refused: the row is already in the native file
Conflicts(new, stmt) ==
    \/ stmt.table = "project" /\ stmt.id \in DOMAIN new.project
    \/ stmt.table = "record" /\ stmt.id \in DOMAIN new.record

\* one awaited statement of migrateFromDb, run by call c
MigrateStatement(c) ==
    /\ At(c, "migrating")
    /\ calls[c].step <= Len(MigrationPlan(vdb))
    /\ ~Conflicts(ldb, MigrationPlan(vdb)[calls[c].step])
    /\ ldb' = MigrationWrite(vdb, ldb, MigrationPlan(vdb)[calls[c].step])
    /\ fs' = [fs EXCEPT !.new = TRUE]
    /\ calls' = [calls EXCEPT ![c].step = @ + 1]
    /\ UNCHANGED <<backend, vdb, vad, lad, now, last, boot>>

\* a statement of the migration of call c throws: unlink(NEW_DB), initDb throws
MigrationThrows(c, unlinked) ==
    /\ At(c, "migrating")
    /\ calls[c].step <= Len(MigrationPlan(vdb))
    /\ fs' = IF fs.new /\ unlinked THEN [fs EXCEPT !.new = FALSE] ELSE fs
    /\ ldb' = IF fs.new /\ unlinked THEN EmptyLibsqlDb ELSE ldb
    /\ calls' = [calls EXCEPT ![c].pc = "failed"]
    /\ UNCHANGED <<backend, vdb, vad, lad, now, last, boot>>

\* migrate() of call c has returned: the rename, then adapter = new
\* LibsqlAdapter(...) and adapter.init() up to its first await
MigrationReturns(c, renamed) ==
    /\ At(c, "migrating")
    /\ calls[c].step > Len(MigrationPlan(vdb))
    /\ fs' = IF renamed /\ fs.old THEN [fs EXCEPT !.old = FALSE, !.backup = TRUE] ELSE fs
    /\ calls' = [calls EXCEPT ![c].pc = "opening"]
    /\ boot' = Assigned(c)
    /\ lad' = Opening
    /\ UNCHANGED <<backend, vdb, ldb, vad, now, last>>

\* adapter.init() of call c completes (_runSchema, _upsertProject,
\* _migrateProjectNames) on the object that call created, and initDb returns
\* the module's adapter
InitReturns(c, projectName) ==
    /\ At(c, "opening")
    /\ InitStore(ldb, projectName, now).pseq <= MaxProjects
    /\ ldb' = InitStore(ldb, projectName, now)
    /\ lad' = IF boot.step = c THEN InitAdapter(ldb, projectName, now) ELSE lad
    /\ fs' = [fs EXCEPT !.new = TRUE]
    /\ calls' = [calls EXCEPT ![c].pc = "returned"]
    /\ UNCHANGED <<backend, vdb, vad, now, last, boot>>

\* adapter.init() of call c throws after this.db was set (the schema or the
\* project statement is refused): initDb throws, the module keeps the adapter
InitThrows(c) ==
    /\ At(c, "opening")
    /\ calls' = [calls EXCEPT ![c].pc = "failed"]
    /\ UNCHANGED <<backend, vdb, ldb, vad, lad, now, last, fs, boot>>

\* a caller that got the adapter from initDb calls get(id) or delete(id)
CallerGet(c, id) == At(c, "returned") /\ Get(id)
CallerDelete(c, id) == At(c, "returned") /\ Delete(id)

\* the process ends; the files stay as they are
ProcessEnds ==
    /\ calls # EmptyFn
    /\ calls' = EmptyFn
    /\ boot' = NotStarted
    /\ lad' = NewAdapter
    /\ last' = NoCall
    /\ UNCHANGED <<backend, vdb, ldb, vad, now, fs>>

NextReentry ==
    \/ \E c \in Callers : CallInitDb(c)
    \/ \E c \in Callers : MigrateStatement(c)
    \/ \E c \in Callers, unlinked \in BOOLEAN : MigrationThrows(c, unlinked)
    \/ \E c \in Callers, renamed \in BOOLEAN : MigrationReturns(c, renamed)
    \/ \E c \in Callers : InitReturns(c, <<"org", "repo">>)
    \/ \E c \in Callers : InitThrows(c)
    \/ \E c \in Callers, id \in 1..MaxRecords : CallerGet(c, id)
    \/ \E c \in Callers, id \in 1..MaxRecords : CallerDelete(c, id)
    \/ ProcessEnds

SpecReentry == InitBoot /\ [][NextReentry]_vars

\* call c has run the migration script to its end
Succeeded(c) == Started(c) /\ calls[c].ran /\ calls[c].pc \in {"opening", "returned"}

\* C22: no call of initDb is running the migration while another call is
\* running it or after another call has completed it; once the legacy file is
\* renamed no call is about to start the migration; and the legacy file is
\* renamed, never deleted
C22_MigratesOnce ==
    /\ \A c, d \in Callers :
          (c # d /\ At(c, "migrating")) => ~(At(d, "migrating") \/ Succeeded(d))
    /\ fs.backup => ~NeedsMigration
    /\ vdb # EmptyVecDb => (fs.old \/ fs.backup)

\* C23: whenever a caller that holds the adapter returned by initDb runs a
\* record operation on a store that holds records, init() of that adapter has
\* completed: the current project is resolved and the store needs no merge for it
C23_MergeBeforeOperations ==
    [][last' # last /\ last'.op # "none" /\ DOMAIN ldb.record # {}
         => /\ lad.currentProject # NoProject
            /\ ~NeedsMerge(ldb, lad.currentProject, <<"org", "repo">>)]_vars

-----------------------------------------------------------------------------
(* Project resolution over the life of an installation: sessions started in a
   checkout with and without a git remote (org/repo, repo), one after the
   other, the clock advancing.  calls remembers, for each name, the id of the
   first resolution of it *)

MaxProjectRows == 3     \* project rows ever created in an installation

\* the adapter of the running backend
Adapter == IF Runs("vec") THEN vad ELSE lad

\* init() of a new session
StartSession(projectName) ==
    /\ InitUpTo(projectName, MaxProjectRows)
    /\ calls' = IF projectName \in DOMAIN calls THEN calls
                ELSE Put(calls, projectName,
                         ProjectRow(upsertProject(Store, projectName, now), projectName).id)

\* init() called again on an initialised adapter: `if (this.db) return`
InitAgain ==
    /\ Ready
    /\ last' = [NoCall EXCEPT !.op = "init"]
    /\ UNCHANGED <<backend, vdb, ldb, vad, lad, now, calls, fs, boot>>

NextResolve ==
    \/ StartSession(<<"org", "repo">>)
    \/ StartSession(<<"repo">>)
    \/ StartSession(<<"org", "lib">>)
    \/ InitAgain
    \/ Restart /\ UNCHANGED calls
    \/ Tick

SpecResolve == Init /\ [][NextResolve]_vars

\* the project table has one row per name
UniqueNames(db) ==
    \A i, j \in DOMAIN db.project : db.project[i].name = db.project[j].name => i = j

\* C24 as stated: whenever a session has resolved its project name, the id is
\* the one the first resolution of that name gave, and project names are unique
C24_SameIdEveryTime ==
    /\ UniqueNames(Store)
    /\ (Ready /\ Adapter.currentProject.name \in DOMAIN calls)
          => Adapter.currentProject.id = calls[Adapter.currentProject.name]

\* the rows of before other than id are those of after other than id, but for
\* the bare-name row a merge deletes
OthersKept(before, after, id, name) ==
    /\ DOMAIN after.project \ {id}
          = {i \in DOMAIN before.project \ {id} :
                ~(HasNamespace(name) /\ before.project[i].name = basename(name))}
    /\ \A i \in DOMAIN after.project \ {id} : after.project[i] = before.project[i]

\* init() of a session and what it did to the project table
Resolves(before, after, adBefore, adAfter, t) ==
    LET name == adAfter.currentProject.name
        id == adAfter.currentProject.id
        was == ProjectIdOf(before, name)
    IN /\ id \in DOMAIN after.project
       /\ after.project[id].name = name
       /\ UniqueNames(after)
       /\ OthersKept(before, after, id, name)
       /\ was # 0 => /\ id = was
                     /\ after.pseq = before.pseq
                     /\ after.project[id] = [before.project[id] EXCEPT !.updated_at = t]
       /\ was = 0 => /\ id = before.pseq + 1
                     /\ after.pseq = before.pseq + 1

\* C24 (amended): resolving a name whose project row exists yields the id of that
\* row, adds no row, and changes of that row only updated_at; a name without
\* row gets a new row with the next id; names stay unique, the other rows are
\* untouched but for the bare-name row the merge deletes; and init called again
\* on an initialised adapter changes nothing
C24_ResolutionIdempotent ==
    [][last'.op = "init"
         => /\ Fresh => /\ Runs("vec") => Resolves(vdb, vdb', vad, vad', now)
                        /\ Runs("libsql") => Resolves(ldb, ldb', lad, lad', now)
            /\ Ready => <<vdb', ldb', vad', lad'>> = <<vdb, ldb, vad, lad>>]_vars

\* a later session has resolved a name again: same id as the first time, the row
\* created at 0 and updated at 1, next to another project
C24_Witness ==
    /\ last.op = "init"
    /\ Ready
    /\ Adapter.currentProject.name \in DOMAIN calls
    /\ Adapter.currentProject.id = calls[Adapter.currentProject.name]
    /\ Store.project[Adapter.currentProject.id].created_at = 0
    /\ Store.project[Adapter.currentProject.id].updated_at = 1
    /\ Cardinality(DOMAIN Store.project) = 2

-----------------------------------------------------------------------------
(* search over a store with more records than the candidate query returns:
   three records of project org/repo with the embedding Q, of kinds spec, arch
   and update, then issues of either project at some distance from Q *)

RankRecords == 5    \* highest record id in this specification

\* expect(results[0].similarity).toBeGreaterThan(0.9)
ExactFloor == (9 * Unit) \div 10

InitRank ==
    /\ backend \in {"vec", "libsql"}
    /\ vdb = VecAfter(TwoProjects(EmptyVecDb), Prefix(Seeded, 3))
    /\ ldb = LibsqlAfter(TwoProjects(EmptyLibsqlDb), Prefix(Seeded, 3))
    /\ fs = NoFiles
    /\ Stopped

RankArgs == UpsertArgs({0}, {0}, {"issue"}, OnePayload)

NextRank ==
    \/ AdapterInit(<<"org", "repo">>)
    \/ AdapterInit(<<"org", "lib">>)
    \/ Restart
    \/ \E a \in RankArgs, e \in {X, C} : UpsertUpTo(a, e, RankRecords)
    \/ \E kind \in {"all", "issue"}, limit \in {0, 1} : Search(Q, kind, limit)

SpecRank == InitRank /\ [][NextRank]_vars

\* the similarity search reports for record i: raw, plus 0.1 capped at 1.0 in the
\* current project
Reported(view, projects, ad, e, i) ==
    LET raw == RawSimilarity(view, e, i)
    IN IF OfCurrentProject(view, projects, ad, i)
       THEN (IF raw + ProjectBoost > Unit THEN Unit ELSE raw + ProjectBoost)
       ELSE raw

\* the records search is asked for: embedded, of the requested kind
Requested(view, kind) ==
    {i \in DOMAIN view : /\ view[i].embedding # NullEmbedding
                         /\ kind \in {"all", view[i].kind}}

\* no stored record of the requested kind with boosted similarity >= 0.3 is left
\* out unless `limit` rows at least as good are returned, and an exact match
\* puts a row of similarity >= 0.9 first
RankedOverStore(view, projects, ad, e, kind, limit, rows) ==
    /\ \A i \in Requested(view, kind) :
          Reported(view, projects, ad, e, i) >= RelevanceFloor
             => \/ \E n \in 1..Len(rows) : rows[n].id = i
                \/ /\ Len(rows) = (IF limit = 0 THEN DefaultLimit ELSE limit)
                   /\ \A n \in 1..Len(rows) :
                         rows[n].similarity >= Reported(view, projects, ad, e, i)
    /\ (\E i \in Requested(view, kind) : view[i].embedding = e)
          => (Len(rows) >= 1 /\ rows[1].similarity >= ExactFloor)

\* C25: search ranks by boosted similarity over the whole store: a stored record
\* of the requested kind with boosted similarity >= 0.3 is omitted only if `limit`
\* returned records have boosted similarity at least as high, and a stored
\* record whose vector equals the query gives a first row of similarity >= 0.9
C25_RankedOverStore ==
    [][\A kind \in {"all", "issue"}, limit \in {0, 1} :
         last'.op = "search" =>
            \/ /\ Runs("vec") =>
                      RankedOverStore(VecView(vdb), vdb.project, vad, Q, kind, limit,
                                      last'.v.rows)
               /\ Runs("libsql") =>
                      RankedOverStore(LibsqlView(ldb), ldb.project, lad, Q, kind, limit,
                                      last'.l.rows)
            \/ ~Search(Q, kind, limit)]_vars

\* the store and the adapter of the running backend, as search sees them
StoreView == IF Runs("vec") THEN VecView(vdb) ELSE LibsqlView(ldb)
Rows == Result.rows

\* C27: every record search returns carries a similarity within [0, 1]
C27_SimilarityInUnitRange ==
    [][last'.op = "search" =>
          /\ \A n \in 1..Len(last'.v.rows) :
                last'.v.rows[n].similarity \in 0..Unit
          /\ \A n \in 1..Len(last'.l.rows) :
                last'.l.rows[n].similarity \in 0..Unit]_vars

\* search has returned a record of the current project whose embedding is the
\* query, with similarity 1.0
C27_Witness ==
    /\ last.op = "search"
    /\ \E n \in 1..Len(Rows) :
          /\ StoreView[Rows[n].id].embedding = Q
          /\ OfCurrentProject(StoreView, Store.project, Adapter, Rows[n].id)
          /\ Rows[n].similarity = Unit

\* the reported similarity of every row is the boosted one, and of two rows of
\* equal raw similarity below 1.0 the one of the current project comes first
BoostedAndOrdered(view, projects, ad, e, rows) ==
    /\ \A n \in 1..Len(rows) :
          rows[n].similarity = Reported(view, projects, ad, e, rows[n].id)
    /\ \A m, n \in 1..Len(rows) :
          (/\ RawSimilarity(view, e, rows[m].id) = RawSimilarity(view, e, rows[n].id)
           /\ RawSimilarity(view, e, rows[m].id) < Unit
           /\ OfCurrentProject(view, projects, ad, rows[m].id)
           /\ ~OfCurrentProject(view, projects, ad, rows[n].id)) => m < n

\* C28: the similarity search reports for a candidate is min(1.0, raw + 0.1) when
\* its owning project is the current project and the raw similarity otherwise, and
\* of two returned candidates with equal raw similarity below 1.0 the one of the
\* current project comes before the one of another project
C28_BoostOnlyCurrentProject ==
    [][last'.op = "search" =>
          /\ Runs("vec") => BoostedAndOrdered(VecView(vdb), vdb.project, vad, Q, last'.v.rows)
          /\ Runs("libsql") =>
                BoostedAndOrdered(LibsqlView(ldb), ldb.project, lad, Q, last'.l.rows)]_vars

\* search has returned two issues with the same embedding, the one of the
\* current project with raw + 0.1 before the one of the other project with raw
C28_Witness ==
    /\ last.op = "search"
    /\ \E m, n \in 1..Len(Rows) :
          /\ m < n
          /\ StoreView[Rows[m].id].embedding = StoreView[Rows[n].id].embedding
          /\ StoreView[Rows[m].id].embedding # Q
          /\ OfCurrentProject(StoreView, Store.project, Adapter, Rows[m].id)
          /\ ~OfCurrentProject(StoreView, Store.project, Adapter, Rows[n].id)
          /\ Rows[m].similarity = Rows[n].similarity + ProjectBoost

-----------------------------------------------------------------------------
(* search with and without limit over a store of more than five records, all
   at different distances from the query *)

LimitRecords == 6    \* highest record id in this specification

\* the store after one awaited upsert for each element of seq (arguments a,
\* embedding e)
RECURSIVE VecSeeded(_, _)
VecSeeded(db, seq) ==
    IF seq = <<>> THEN db
    ELSE VecSeeded((CHOOSE o \in VecUpsert(db, NewAdapter, seq[1].a, seq[1].e, 0) : TRUE).db,
                   Tail(seq))

RECURSIVE LibsqlSeeded(_, _)
LibsqlSeeded(db, seq) ==
    IF seq = <<>> THEN db
    ELSE LibsqlSeeded((CHOOSE o \in LibsqlUpsert(db, NewAdapter, seq[1].a, seq[1].e, 0)
                          : TRUE).db, Tail(seq))

LimitSeed ==
    <<[a |-> OutsiderCall(1, "issue"), e |-> Q], [a |-> OutsiderCall(1, "spec"), e |-> X],
      [a |-> OutsiderCall(1, "arch"), e |-> C], [a |-> OutsiderCall(2, "issue"), e |-> C],
      [a |-> OutsiderCall(2, "spec"), e |-> W]>>

InitLimit ==
    /\ backend \in {"vec", "libsql"}
    /\ vdb = VecSeeded(TwoProjects(EmptyVecDb), LimitSeed)
    /\ ldb = LibsqlSeeded(TwoProjects(EmptyLibsqlDb), LimitSeed)
    /\ fs = NoFiles
    /\ Stopped

LimitArgs == UpsertArgs({0}, {0}, {"update"}, OnePayload)

NextLimit ==
    \/ AdapterInit(<<"org", "repo">>)
    \/ AdapterInit(<<"org", "lib">>)
    \/ Restart
    \/ \E a \in LimitArgs, e \in {X, W} : UpsertUpTo(a, e, LimitRecords)
    \/ \E kind \in {"all", "issue"}, limit \in 0..2 : Search(Q, kind, limit)

SpecLimit == InitLimit /\ [][NextLimit]_vars

\* best first, and no more rows than asked for (5 when no limit is given)
SortedAndCut(rows, limit) ==
    /\ Len(rows) <= (IF limit = 0 THEN DefaultLimit ELSE limit)
    /\ \A m, n \in 1..Len(rows) : m < n => rows[m].similarity >= rows[n].similarity

\* C26: the list returned by search is in non-increasing order of the reported
\* similarity and holds at most `limit` records, 5 when no limit is given
C26_SortedAndLimited ==
    [][\A kind \in {"all", "issue"}, limit \in 0..2 :
         last'.op = "search" =>
            \/ /\ Runs("vec") => SortedAndCut(last'.v.rows, limit)
               /\ Runs("libsql") => SortedAndCut(last'.l.rows, limit)
            \/ ~Search(Q, kind, limit)]_vars

\* a search has returned five of six records with boosted similarity >= 0.3,
\* the first better than the last
C26_Witness ==
    /\ last.op = "search"
    /\ Cardinality({i \in Requested(StoreView, "all") :
                       Reported(StoreView, Store.project, Adapter, Q, i) >= RelevanceFloor})
          > DefaultLimit
    /\ Len(Rows) = DefaultLimit
    /\ Rows[1].similarity > Rows[DefaultLimit].similarity

-----------------------------------------------------------------------------
(* list on either backend, two projects, the clock advancing *)

\* SqliteVecAdapter.list: the ids of the rows, ORDER BY r.updated_at DESC
VecList(db, ad, kind, status, project) ==
    LET projectId == IF project \in {<<>>, Current} THEN ad.currentProject.id
                     ELSE IF project # AllProjects THEN ProjectIdOf(db, project)
                     ELSE 0
        rows == {i \in DOMAIN db.record :
                    /\ db.record[i].project_id \in DOMAIN db.project
                    /\ projectId # 0 => db.record[i].project_id = projectId
                    /\ KindFilter(kind, db.record[i].kind)
                    /\ status \in {"", "all"} \/ db.record[i].status = status}
    IN Ranked([i \in rows |-> db.record[i].updated_at], Cardinality(rows))

ListResult(ids) == [Ok("list", 0) EXCEPT !.rows = ids]

\* list({ kind, status, project }) on the adapter in use
ListRecords(kind, status, project) ==
    /\ Ready
    /\ \E vr \in (IF Runs("vec")
                  THEN {ListResult(r) : r \in VecList(vdb, vad, kind, status, project)}
                  ELSE {NoResult}),
          lr \in (IF Runs("libsql")
                  THEN {ListResult(r) : r \in LibsqlList(ldb, lad, kind, status, project)}
                  ELSE {NoResult}) :
          last' = [op |-> "list", v |-> vr, l |-> lr]
    /\ UNCHANGED <<backend, vdb, ldb, vad, lad, now, calls, fs, boot>>

\* the project arguments: omitted, 'current', '*', the two projects, a name no
\* project has
ListProjects ==
    {<<>>, Current, AllProjects, <<"org", "repo">>, <<"org", "lib">>, <<"org", "none">>}

ListArgs == UpsertArgs({0}, {0}, {"issue", "spec"}, OnePayload)

NextList ==
    \/ AdapterInit(<<"org", "repo">>)
    \/ AdapterInit(<<"org", "lib">>)
    \/ Restart
    \/ Tick
    \/ \E a \in ListArgs : Upsert(a, Q)
    \/ \E project \in ListProjects : ListRecords("", "", project)

SpecList == Init /\ [][NextList]_vars

\* the records list is specified to return for a project argument
Selected(db, ad, project) ==
    {i \in DOMAIN db.record :
        /\ db.record[i].project_id \in DOMAIN db.project
        /\ IF project \in {<<>>, Current} THEN db.record[i].project_id = ad.currentProject.id
           ELSE IF project = AllProjects THEN TRUE
           ELSE db.project[db.record[i].project_id].name = project}

\* rows are the selected records, each once, most recently updated first
ListsSelected(db, ad, project, rows) ==
    /\ {rows[n] : n \in 1..Len(rows)} = Selected(db, ad, project)
    /\ Len(rows) = Cardinality(Selected(db, ad, project))
    /\ \A m, n \in 1..Len(rows) :
          m < n => db.record[rows[m]].updated_at >= db.record[rows[n]].updated_at

\* C29: list returns, ordered by updated_at most recent first, the records of
\* the current project when project is omitted or 'current', the records of all
\* projects for '*', and for a literal name the records whose owning project
\* has that name, none when no project has that name
C29_ListFiltersByProject ==
    [][\A project \in ListProjects :
         last'.op = "list" =>
            \/ /\ Runs("vec") => ListsSelected(vdb, vad, project, last'.v.rows)
               /\ Runs("libsql") => ListsSelected(ldb, lad, project, last'.l.rows)
            \/ ~ListRecords("", "", project)]_vars

-----------------------------------------------------------------------------
(* delete *)

\* what a delete(id) with result res did to the record table
DeletedFrom(before, after, res, id) ==
    /\ res.status = "ok"
    /\ res.id # 0 <=> id \in DOMAIN before.record
    /\ res.id # 0 => /\ getRecord(after, id) = 0
                     /\ DOMAIN after.record = DOMAIN before.record \ {id}
                     /\ \A j \in DOMAIN after.record : after.record[j] = before.record[j]
                     /\ after.project = before.project
    /\ res.id = 0 => after = before

\* C30: delete(id) returns true exactly when a record with that id existed
\* before the call; after a true result get(id) returns null, the embedding of
\* the record is gone and every other record, with its embedding, is as before;
\* after a false result the store is unchanged
C30_DeleteExactly ==
    [][\A id \in 1..MaxRecords :
         last'.op = "delete" =>
            \/ /\ Runs("vec") =>
                     /\ DeletedFrom(vdb, vdb', last'.v, id)
                     /\ vdb'.record_embedding = Remove(vdb.record_embedding, id)
               /\ Runs("libsql") => DeletedFrom(ldb, ldb', last'.l, id)
            \/ ~Delete(id)]_vars

-----------------------------------------------------------------------------
(* get on either backend, after upserts and deletes *)

\* get(id) on the adapter in use: the row, or null
GetRecord(id) ==
    /\ Ready
    /\ last' = [op |-> "get",
                v |-> IF Runs("vec") THEN Ok("get", getRecord(vdb, id)) ELSE NoResult,
                l |-> IF Runs("libsql") THEN Ok("get", getRecord(ldb, id)) ELSE NoResult]
    /\ UNCHANGED <<backend, vdb, ldb, vad, lad, now, calls, fs, boot>>

\* the ids asked for: those the store can hold and one it never holds
GetIds == 1..(MaxRecords + 1)

GetArgs == UpsertArgs({0}, {0}, {"issue", "spec"}, OnePayload)

NextGet ==
    \/ AdapterInit(<<"org", "repo">>)
    \/ Restart
    \/ \E a \in GetArgs : Upsert(a, Q)
    \/ \E id \in 1..MaxRecords : Delete(id)
    \/ \E id \in GetIds : GetRecord(id)

SpecGet == Init /\ [][NextGet]_vars

\* the outcome of get(id) on a store: the row of that id, or null without error
Got(db, res, id) ==
    /\ res.status = "ok"
    /\ res.id = (IF id \in DOMAIN db.record THEN id ELSE 0)

\* C31: on an initialised adapter get(id) returns the record of that id when it
\* exists and null, without throwing, when it does not (never created, or deleted)
C31_GetOrNull ==
    [][\A id \in GetIds :
         last'.op = "get" =>
            \/ /\ Runs("vec") => Got(vdb, last'.v, id)
               /\ Runs("libsql") => Got(ldb, last'.l, id)
            \/ ~GetRecord(id)]_vars

\* get has returned null for the id of a deleted record while another record is
\* still stored
C31_Witness ==
    /\ last.op = "get"
    /\ Result.status = "ok"
    /\ Result.id = 0
    /\ Store.rseq = MaxRecords
    /\ Cardinality(DOMAIN Store.record) = 1

-----------------------------------------------------------------------------
(* upsert without id when nothing close is stored *)

\* valid calls without id for the current project
FreshArgs == UpsertArgs({0}, {0}, {"issue", "spec"}, Payloads)

\* the call added one record, under an id not in use, owned by proj, and left
\* every record that was there as it was
InsertedOne(before, after, res, proj, a, e) ==
    /\ res.status = "ok" /\ res.branch = "insert"
    /\ res.id \notin DOMAIN before
    /\ DOMAIN after = DOMAIN before \cup {res.id}
    /\ after[res.id].project_id = proj
    /\ after[res.id].kind = a.kind
    /\ after[res.id].embedding = e
    /\ \A i \in DOMAIN before : after[i] = before[i]

\* C32: when no record of the same project and kind has similarity >= 0.85 to the
\* upserted embedding, an upsert without id inserts exactly one record, under an
\* id no record has, owned by the current project, and changes no other record
C32_InsertsOneWhenNothingClose ==
    [][\A a \in FreshArgs, e \in {Q, C} :
         last'.op = "upsert" =>
            \/ /\ (Runs("vec") /\ DedupTargets(VecView(vdb), ResolveProject(vad, a),
                                                a.kind, e) = {})
                     => InsertedOne(VecView(vdb), VecView(vdb'), last'.v,
                                    ResolveProject(vad, a), a, e)
               /\ (Runs("libsql") /\ DedupTargets(LibsqlView(ldb), ResolveProject(lad, a),
                                                   a.kind, e) = {})
                     => InsertedOne(LibsqlView(ldb), LibsqlView(ldb'), last'.l,
                                    ResolveProject(lad, a), a, e)
            \/ ~Upsert(a, e)]_vars

-----------------------------------------------------------------------------
(* getRecentRecords: the records of one project updated within the last hours *)

\* records of the project under test in the seeded store
RecentRecords == 11

\* LIMIT 10
RecentLimit == 10

\* a timestamp written without leading zeros
toISOStringUnpadded(t) == Digits(t)

\* new Date(ms).toISOString(): fixed-width text, one clock unit = one hour
toISOString(t) == <<t \div 10, t % 10>>

\* a > b as SQLite compares two TEXT values
RECURSIVE TextAfter(_, _)
TextAfter(a, b) ==
    IF a = <<>> THEN FALSE
    ELSE IF b = <<>> THEN TRUE
    ELSE IF a[1] # b[1] THEN a[1] > b[1]
    ELSE TextAfter(Tail(a), Tail(b))

\* ORDER BY r.updated_at DESC LIMIT k: every way to list the k latest ids, latest
\* first; equal timestamps in any order
RECURSIVE NewestFirst(_, _)
NewestFirst(stamp, k) ==
    IF k <= 0 \/ DOMAIN stamp = {} THEN {<<>>}
    ELSE LET latest == {i \in DOMAIN stamp :
                           \A j \in DOMAIN stamp : ~TextAfter(stamp[j], stamp[i])}
         IN UNION {{<<i>> \o r : r \in NewestFirst(Remove(stamp, i), k - 1)}
                     : i \in latest}

\* SELECT ... FROM record r JOIN project p ON r.project_id = p.id
\* WHERE r.project_id = ? AND r.updated_at > ? ORDER BY r.updated_at DESC LIMIT 10
getRecentRecords(db, projectId, hours, t) ==
    LET cutoff == toISOString(t - hours)
        found  == {i \in DOMAIN db.record :
                     /\ db.record[i].project_id = projectId
                     /\ db.record[i].project_id \in DOMAIN db.project
                     /\ TextAfter(toISOString(db.record[i].updated_at), cutoff)}
    IN NewestFirst([i \in found |-> toISOString(db.record[i].updated_at)], RecentLimit)

RecentResult(rows) == [Ok("recent", 0) EXCEPT !.rows = rows]

\* getRecentRecords(projectId, hours)
GetRecentRecords(projectId, hours) ==
    /\ Ready
    /\ hours <= now
    /\ \E vr \in (IF Runs("vec") THEN getRecentRecords(vdb, projectId, hours, now)
                  ELSE {<<>>}),
          lr \in (IF Runs("libsql") THEN getRecentRecords(ldb, projectId, hours, now)
                  ELSE {<<>>}) :
          last' = [op |-> "recent", v |-> RecentResult(vr), l |-> RecentResult(lr)]
    /\ UNCHANGED <<backend, vdb, ldb, vad, lad, now, calls, fs, boot>>

RecentKinds == <<"issue", "spec", "arch", "update">>
RecentEmbeddings == <<Q, C, Z>>

\* record i of project 1 was written at hour i; one record of project 2 at the
\* last hour
RecentSeed ==
    [i \in 1..RecentRecords |->
        [a |-> OutsiderCall(1, RecentKinds[((i - 1) % 4) + 1]),
         e |-> RecentEmbeddings[((i - 1) \div 4) + 1], t |-> i]]
    \o <<[a |-> OutsiderCall(2, "issue"), e |-> Q, t |-> RecentRecords]>>

RECURSIVE VecWritten(_, _)
VecWritten(db, seq) ==
    IF seq = <<>> THEN db
    ELSE VecWritten((CHOOSE o \in VecUpsert(db, NewAdapter, seq[1].a, seq[1].e, seq[1].t)
                        : TRUE).db, Tail(seq))

RECURSIVE LibsqlWritten(_, _)
LibsqlWritten(db, seq) ==
    IF seq = <<>> THEN db
    ELSE LibsqlWritten((CHOOSE o \in LibsqlUpsert(db, NewAdapter, seq[1].a, seq[1].e,
                                                  seq[1].t) : TRUE).db, Tail(seq))

InitRecent ==
    /\ backend \in {"vec", "libsql"}
    /\ vdb = VecWritten(TwoProjects(EmptyVecDb), RecentSeed)
    /\ ldb = LibsqlWritten(TwoProjects(EmptyLibsqlDb), RecentSeed)
    /\ fs = NoFiles
    /\ vad = NewAdapter
    /\ lad = NewAdapter
    /\ now = RecentRecords
    /\ last = NoCall
    /\ calls = EmptyFn
    /\ boot = NotStarted

RecentHours == {1, 5, RecentRecords}
RecentArgs == UpsertArgs({1, RecentRecords}, {0}, {"issue"}, OnePayload)

NextRecent ==
    \/ AdapterInit(<<"org", "repo">>)
    \/ Restart
    \/ TickUpTo(RecentRecords + MaxTime)
    \/ \E a \in RecentArgs : UpsertUpTo(a, X, RecentRecords + 1)
    \/ Delete(1)
    \/ \E projectId \in 1..2, hours \in RecentHours : GetRecentRecords(projectId, hours)

SpecRecent == InitRecent /\ [][NextRecent]_vars

\* the records of project p updated later than h hours before t
UpdatedSince(view, p, h, t) ==
    {i \in DOMAIN view : view[i].project_id = p /\ view[i].updated_at > t - h}

\* rows lists, newest first and without repeats, the (at most RecentLimit) most
\* recently updated records of project p updated later than h hours before t
RecentWindow(view, rows, p, h, t) ==
    LET within == UpdatedSince(view, p, h, t)
        listed == {rows[n] : n \in 1..Len(rows)}
    IN /\ listed \subseteq within
       /\ Cardinality(listed) = Len(rows)
       /\ Len(rows) = (IF Cardinality(within) > RecentLimit THEN RecentLimit
                       ELSE Cardinality(within))
       /\ \A m, n \in 1..Len(rows) :
             m < n => view[rows[m]].updated_at >= view[rows[n]].updated_at
       /\ \A i \in within \ listed, n \in 1..Len(rows) :
             view[i].updated_at <= view[rows[n]].updated_at

\* C33: getRecentRecords(projectId, hours) returns only records of that project
\* updated later than now minus hours, newest first, at most 10 of them, and the
\* 10 most recently updated when more than 10 qualify
C33_RecentWindow ==
    [][\A projectId \in 1..2, hours \in RecentHours :
         last'.op = "recent" =>
            \/ /\ last'.v.status = "ok" /\ last'.l.status = "ok"
               /\ RecentWindow(StoreView, IF Runs("vec") THEN last'.v.rows
                                          ELSE last'.l.rows, projectId, hours, now)
            \/ ~GetRecentRecords(projectId, hours)]_vars

\* a query returned 10 records of project 1 while 11 were inside its window, and
\* left out the one updated longest ago
C33_Witness ==
    /\ last.op = "recent"
    /\ Len(Rows) = RecentLimit
    /\ \E i \in DOMAIN StoreView :
          /\ StoreView[i].project_id = 1
          /\ i \notin {Rows[n] : n \in 1..Len(Rows)}
          /\ \A n \in 1..Len(Rows) :
                /\ StoreView[Rows[n]].project_id = 1
                /\ StoreView[Rows[n]].updated_at > StoreView[i].updated_at
    /\ \E j \in DOMAIN StoreView : StoreView[j].project_id = 2

-----------------------------------------------------------------------------
(* Several close records in one class: which one the dedup overwrites *)

\* one call per embedding
TopCalls ==
    {[a |-> [id |-> 0, projectId |-> 0, kind |-> "issue", title |-> "t1", body |-> "",
             status |-> "open"], e |-> Q],
     [a |-> [id |-> 0, projectId |-> 0, kind |-> "issue", title |-> "t1", body |-> "",
             status |-> "open"], e |-> C],
     [a |-> [id |-> 0, projectId |-> 0, kind |-> "issue", title |-> "t2", body |-> "b2",
             status |-> "resolved"], e |-> X]}

\* Q and C are farther than 0.85 from each other, X is within 0.85 of both
NextTop ==
    \/ AdapterInit(<<"org", "repo">>)
    \/ Restart
    \/ Tick
    \/ \E c \in TopCalls : Upsert(c.a, c.e)
    \/ Delete(1)

SpecTop == Init /\ [][NextTop]_vars

\* the call overwrote a record of the targets that none of them is closer than
OverwroteTop(view, res, proj, kind, e) ==
    LET targets == DedupTargets(view, proj, kind, e)
    IN /\ res.status = "ok" /\ res.branch = "dedup"
       /\ res.id \in targets
       /\ \A j \in targets : Dot(e, view[j].embedding) <= Dot(e, view[res.id].embedding)

\* C34: when several records of the same project and kind have similarity >= 0.85
\* to the upserted embedding, the upsert without id overwrites the one with the
\* highest similarity, on both backends
C34_OverwritesTopCandidate ==
    [][\A c \in TopCalls :
         last'.op = "upsert" =>
            \/ /\ (Runs("vec") /\ Cardinality(DedupTargets(VecView(vdb),
                        ResolveProject(vad, c.a), c.a.kind, c.e)) > 1)
                     => OverwroteTop(VecView(vdb), last'.v, ResolveProject(vad, c.a),
                                     c.a.kind, c.e)
               /\ (Runs("libsql") /\ Cardinality(DedupTargets(LibsqlView(ldb),
                        ResolveProject(lad, c.a), c.a.kind, c.e)) > 1)
                     => OverwroteTop(LibsqlView(ldb), last'.l, ResolveProject(lad, c.a),
                                     c.a.kind, c.e)
            \/ ~Upsert(c.a, c.e)]_vars

-----------------------------------------------------------------------------
(* What a dedup overwrite leaves alone *)

\* row id took the title, body, status and embedding of the call and the time of
\* the call; its project, kind and created_at, and every other row, are as before
OverwrittenInPlace(before, after, id, a, e, t) ==
    /\ id \in DOMAIN before
    /\ DOMAIN after = DOMAIN before
    /\ after[id] = [before[id] EXCEPT !.title = a.title, !.body = a.body,
                                      !.status = a.status, !.embedding = e,
                                      !.updated_at = t]
    /\ after[id].project_id = before[id].project_id
    /\ after[id].kind = before[id].kind
    /\ after[id].created_at = before[id].created_at
    /\ \A i \in DOMAIN before \ {id} : after[i] = before[i]

\* C35: a dedup overwrite changes only the title, body, status, embedding and
\* updated_at of the matched record; its id, project, kind and created_at, every
\* other record and every project are unchanged
C35_OverwriteFrame ==
    [][\A c \in TopCalls :
         last'.op = "upsert" =>
            \/ /\ (last'.v.status = "ok" /\ last'.v.branch = "dedup")
                     => /\ OverwrittenInPlace(VecView(vdb), VecView(vdb'), last'.v.id,
                                              c.a, c.e, now)
                        /\ vdb'.project = vdb.project
               /\ (last'.l.status = "ok" /\ last'.l.branch = "dedup")
                     => /\ OverwrittenInPlace(LibsqlView(ldb), LibsqlView(ldb'),
                                              last'.l.id, c.a, c.e, now)
                        /\ ldb'.project = ldb.project
            \/ ~Upsert(c.a, c.e)]_vars

\* a dedup overwrite has given an older record a new title and a new embedding
\* while another record is stored
C35_Witness ==
    /\ last.op = "upsert"
    /\ Result.status = "ok" /\ Result.branch = "dedup"
    /\ Cardinality(DOMAIN StoreView) = 2
    /\ StoreView[Result.id].updated_at > StoreView[Result.id].created_at
    /\ StoreView[Result.id].embedding = X
    /\ StoreView[Result.id].title = "t2"

-----------------------------------------------------------------------------
(* Where the project name comes from, and the merge it can set off *)

\* a session's surroundings: the version-control root (<<>> outside a work tree),
\* the organization and repository of the origin URL (<<>> without a matching
\* remote) and the working directory; a path is its segments between slashes
Environments ==
    {[toplevel |-> <<"", "repo">>, remote |-> <<"org", "repo">>, cwd |-> <<"", "repo">>],
     [toplevel |-> <<"", "repo">>, remote |-> <<>>, cwd |-> <<"", "repo">>],
     [toplevel |-> <<>>, remote |-> <<>>, cwd |-> <<"", "repo">>]}

\* _detectProject: `${match[1]}/${match[2]}` of the remote, else basename(toplevel),
\* else process.cwd()
detectProject(env) ==
    IF env.toplevel = <<>> THEN env.cwd
    ELSE IF env.remote = <<>> THEN basename(env.toplevel)
    ELSE env.remote

\* init() of a session started in env
StartIn(env) == AdapterInit(detectProject(env))

DetectArgs == UpsertArgs({0}, {0}, {"issue", "spec"}, OnePayload)

NextDetect ==
    \/ \E env \in Environments : StartIn(env)
    \/ Restart
    \/ \E a \in DetectArgs, e \in {Q, C} : Upsert(a, e)
    \/ \E id \in 1..MaxRecords : Delete(id)

SpecDetect == Init /\ [][NextDetect]_vars

\* every project row is still there and every record is still owned as before
NothingMerged(before, after) ==
    /\ DOMAIN before.project \subseteq DOMAIN after.project
    /\ \A i \in DOMAIN before.record :
          /\ i \in DOMAIN after.record
          /\ after.record[i].project_id = before.record[i].project_id

\* C36: when the project name comes from the last path segment of the
\* version-control root or from the raw working-directory path, initialization
\* never reassigns the records of another project and never deletes a project
C36_MergeOnlyForRemoteNames ==
    [][\A env \in Environments :
         (env.remote = <<>> /\ last'.op = "init") =>
            \/ /\ Runs("vec") => NothingMerged(vdb, vdb')
               /\ Runs("libsql") => NothingMerged(ldb, ldb')
            \/ ~StartIn(env)]_vars

-----------------------------------------------------------------------------
(* upsert with the id of no record *)

ByIdArgs == UpsertArgs(1..MaxRecords, {0}, {"issue", "spec"}, Payloads)

\* C37: upsert with an id that matches no record (never created, or deleted)
\* leaves the store unchanged on both backends: no record and no embedding row is
\* created, so every stored embedding belongs to an existing record
C37_MissingIdChangesNothing ==
    [][\A a \in ByIdArgs, e \in {Q, C} :
         last'.op = "upsert" =>
            \/ /\ (Runs("vec") /\ a.id \notin DOMAIN vdb.record)
                     => /\ vdb' = vdb
                        /\ DOMAIN vdb'.record_embedding \subseteq DOMAIN vdb'.record
               /\ (Runs("libsql") /\ a.id \notin DOMAIN ldb.record) => ldb' = ldb
            \/ ~Upsert(a, e)]_vars

-----------------------------------------------------------------------------
(* What initDb hands to its callers *)

\* C38: every adapter initDb has returned to a caller is fully initialized (the
\* client is open and the current project is resolved, so getCurrentProject
\* succeeds), also for a call made while an earlier call is in progress and for
\* a call made after an earlier call failed in adapter.init()
C38_ReturnedAdapterInitialized ==
    \A c \in DOMAIN calls :
        calls[c].pc = "returned" => (lad.db /\ lad.currentProject # NoProject)

====
